---- MODULE Spec2Model ----
(***************************************************************************)
(* Model of the roommate matching engine of shared-housing                 *)
(* (src/roommate_matching): CompatibilityCalculator, MatchingService, the  *)
(* views that call them and the tables they write.                         *)
(*                                                                         *)
(* Numbers: Python floats are modelled as exact rationals <<n, d>> in      *)
(* lowest terms (d > 0), so that equal values are equal tuples.  A value   *)
(* read from a DecimalField is a Decimal; the Python type of the budget    *)
(* score is modelled beside its value because Decimal * float raises.      *)
(* Strings that the code lowercases or searches are sequences of           *)
(* one-character strings; category strings are TLA+ strings.               *)
(***************************************************************************)
EXTENDS Integers, Sequences, FiniteSets, Bags, TLC

\* ------------------------------------------------------------------------
\* Bounds of the model
\* ------------------------------------------------------------------------
NUsers == 3
MaxLimit == 2
MaxActivities == 4
MaxInteractions == 2

\* ------------------------------------------------------------------------
\* Rational arithmetic (Python float / Decimal arithmetic, exact)
\* ------------------------------------------------------------------------
Abs(x) == IF x < 0 THEN -x ELSE x

RECURSIVE GCD(_, _)
GCD(a, b) == IF b = 0 THEN a ELSE GCD(b, a % b)

Reduce(n, d, g) == <<n \div g, d \div g>>

\* The rational n / d (d > 0) in lowest terms.
Rat(n, d) == Reduce(n, d, GCD(Abs(n), d))

RInt(n) == <<n, 1>>
RAdd(x, y) == Rat(x[1] * y[2] + y[1] * x[2], x[2] * y[2])
RSub(x, y) == Rat(x[1] * y[2] - y[1] * x[2], x[2] * y[2])
RMul(x, y) == Rat(x[1] * y[1], x[2] * y[2])
RDiv(x, y) == Rat(x[1] * y[2], x[2] * y[1])
RLe(x, y) == x[1] * y[2] <= y[1] * x[2]
RLt(x, y) == x[1] * y[2] < y[1] * x[2]
RMin(x, y) == IF RLe(x, y) THEN x ELSE y
RMax(x, y) == IF RLe(y, x) THEN x ELSE y

RECURSIVE RSum(_)
RSum(s) == IF s = <<>> THEN RInt(0) ELSE RAdd(s[1], RSum(Tail(s)))

IMin(a, b) == IF a <= b THEN a ELSE b
IMax(a, b) == IF a >= b THEN a ELSE b

\* ------------------------------------------------------------------------
\* Strings
\* ------------------------------------------------------------------------
\* str.lower() on one character, for the letters the model's strings use.
LowerChar(c) ==
    CASE c = "A" -> "a" [] c = "B" -> "b" [] c = "D" -> "d" [] c = "E" -> "e"
      [] c = "G" -> "g" [] c = "I" -> "i" [] c = "L" -> "l" [] c = "M" -> "m"
      [] c = "N" -> "n" [] c = "O" -> "o" [] c = "P" -> "p" [] c = "S" -> "s"
      [] c = "T" -> "t" [] c = "Y" -> "y"
      [] OTHER -> c

Lower(s) == [i \in 1..Len(s) |-> LowerChar(s[i])]

\* Python's `needle in haystack` on strings.
Contains(haystack, needle) ==
    \E i \in 0..(Len(haystack) - Len(needle)) :
        \A j \in 1..Len(needle) : haystack[i + j] = needle[j]

\* Python's order on the category strings the lookup tables sort.
StrOrder ==
    <<"", "cat", "dog", "early_bird", "flexible", "freelance", "never",
      "night_owl", "no", "none", "occasionally", "other", "regular",
      "regularly", "shift", "social", "socially", "student", "want_pets",
      "yes">>

StrRank(s) == CHOOSE i \in 1..Len(StrOrder) : StrOrder[i] = s

\* tuple(sorted([a, b]))
SortedPair(a, b) == IF StrRank(a) <= StrRank(b) THEN <<a, b>> ELSE <<b, a>>

\* ------------------------------------------------------------------------
\* Records read by the engine
\* ------------------------------------------------------------------------
\* user.profile raises DoesNotExist / user.matching_criteria is absent.
NoProfile == [exists |-> FALSE]
NoCriteria == [exists |-> FALSE]

\* The date timezone.now().date() returns while the model runs, <<y, m, d>>.
Today == <<2024, 6, 15>>

\* A UserProfile row with the model's field defaults.  An optional number
\* that is NULL is 0 (the code only tests its truth value, and 0 is as
\* false as None); a NULL date is <<>>; a blank string is "".
DefaultProfile ==
    [exists |-> TRUE,
     date_of_birth |-> <<>>, gender |-> "",
     preferred_locations |-> <<>>,
     min_budget |-> 0, max_budget |-> 0,
     cleanliness_level |-> 5, noise_tolerance |-> 5, social_level |-> 5,
     smoker |-> "never", drinking |-> "socially", pets |-> "none",
     schedule_type |-> "", works_from_home |-> FALSE,
     preferred_age_min |-> 0, preferred_age_max |-> 0,
     preferred_gender |-> "any"]

\* A MatchingCriteria row with the model's field defaults.
DefaultCriteria ==
    [exists |-> TRUE,
     budget_importance |-> 5, location_importance |-> 4,
     lifestyle_importance |-> 4, schedule_importance |-> 3,
     habits_importance |-> 4,
     deal_breakers |-> <<>>,
     strict_age_preference |-> FALSE, strict_gender_preference |-> FALSE]

Components == <<"budget", "location", "lifestyle", "schedule", "habits">>

\* ------------------------------------------------------------------------
\* CompatibilityCalculator
\* ------------------------------------------------------------------------
\* self.weights
default_weights ==
    [budget |-> Rat(25, 100), location |-> Rat(20, 100),
     lifestyle |-> Rat(20, 100), schedule |-> Rat(15, 100),
     habits |-> Rat(20, 100)]

\* min(100, overlap_ratio * 100): the int 100 unless the Decimal is smaller.
budget_min_100(scaled) ==
    IF RLe(RInt(100), scaled)
    THEN [value |-> RInt(100), type |-> "int"]
    ELSE [value |-> scaled, type |-> "Decimal"]

\* overlap_ratio = overlap_size / avg_range_size if avg_range_size > 0 else 0
budget_overlap_score(overlap_size, avg_range_size) ==
    IF RLt(RInt(0), avg_range_size)
    THEN budget_min_100(RMul(RDiv(RInt(overlap_size), avg_range_size), RInt(100)))
    ELSE [value |-> RInt(0), type |-> "int"]

\* The value and the Python type of the budget score.
calculate_budget_compatibility(profile1, profile2) ==
    IF profile1.min_budget = 0 \/ profile1.max_budget = 0
       \/ profile2.min_budget = 0 \/ profile2.max_budget = 0
    THEN [value |-> RInt(50), type |-> "float"]
    ELSE
      LET overlap_start == IMax(profile1.min_budget, profile2.min_budget)
          overlap_end == IMin(profile1.max_budget, profile2.max_budget)
          user1_range_size == profile1.max_budget - profile1.min_budget
          user2_range_size == profile2.max_budget - profile2.min_budget
          overlap_size == overlap_end - overlap_start
      IN IF overlap_start > overlap_end
         THEN [value |-> RInt(0), type |-> "float"]
         ELSE budget_overlap_score(
                  overlap_size, Rat(user1_range_size + user2_range_size, 2))

SeqRange(s) == {s[i] : i \in 1..Len(s)}

calculate_location_compatibility(profile1, profile2) ==
    LET locations1 == profile1.preferred_locations
        locations2 == profile2.preferred_locations
        locations1_lower == [i \in 1..Len(locations1) |-> Lower(locations1[i])]
        locations2_lower == [i \in 1..Len(locations2) |-> Lower(locations2[i])]
        common_locations == SeqRange(locations1_lower) \cap SeqRange(locations2_lower)
    IN IF locations1 = <<>> \/ locations2 = <<>>
       THEN RInt(60)
       ELSE IF common_locations # {}
       THEN LET overlap_ratio ==
                    Rat(Cardinality(common_locations),
                        IMax(Len(locations1), Len(locations2)))
            IN RMin(RInt(100), RAdd(RMul(overlap_ratio, RInt(100)), RInt(50)))
       ELSE RInt(30)

\* drinking_compatibility.get(key, 70)
drinking_compatibility(key) ==
    CASE key = <<"no", "no">> -> 100
      [] key = <<"no", "social">> -> 80
      [] key = <<"no", "regular">> -> 40
      [] key = <<"social", "social">> -> 100
      [] key = <<"social", "regular">> -> 85
      [] key = <<"regular", "regular">> -> 100
      [] OTHER -> 70

\* pet_compatibility.get(key, 70)
pet_compatibility(key) ==
    CASE key = <<"no", "no">> -> 100
      [] key = <<"no", "yes">> -> 30
      [] key = <<"yes", "yes">> -> 90
      [] OTHER -> 70

RECURSIVE ISum(_)
ISum(s) == IF s = <<>> THEN 0 ELSE s[1] + ISum(Tail(s))

\* sum(scores) / len(scores) if scores else 50.0
mean_or_50(scores) ==
    IF scores # <<>> THEN Rat(ISum(scores), Len(scores)) ELSE RInt(50)

calculate_lifestyle_compatibility(profile1, profile2) ==
    LET social ==
            IF profile1.social_level # 0 /\ profile2.social_level # 0
            THEN <<IMax(0, 100 - Abs(profile1.social_level - profile2.social_level) * 15)>>
            ELSE <<>>
        smoking ==
            IF profile1.smoker # "" /\ profile2.smoker # ""
            THEN IF profile1.smoker = profile2.smoker THEN <<100>>
                 ELSE IF "no" \in {profile1.smoker, profile2.smoker}
                         /\ "yes" \in {profile1.smoker, profile2.smoker}
                 THEN <<20>>
                 ELSE <<70>>
            ELSE <<>>
        drinking ==
            IF profile1.drinking # "" /\ profile2.drinking # ""
            THEN <<drinking_compatibility(SortedPair(profile1.drinking, profile2.drinking))>>
            ELSE <<>>
        pets ==
            IF profile1.pets # "" /\ profile2.pets # ""
            THEN <<pet_compatibility(SortedPair(profile1.pets, profile2.pets))>>
            ELSE <<>>
    IN mean_or_50(social \o smoking \o drinking \o pets)

\* schedule_compatibility.get(key, 70)
schedule_compatibility(key) ==
    CASE key = <<"early_bird", "early_bird">> -> 100
      [] key = <<"early_bird", "regular">> -> 80
      [] key = <<"early_bird", "night_owl">> -> 40
      [] key = <<"regular", "regular">> -> 100
      [] key = <<"regular", "night_owl">> -> 75
      [] key = <<"night_owl", "night_owl">> -> 100
      [] OTHER -> 70

calculate_schedule_compatibility(profile1, profile2) ==
    IF profile1.schedule_type = "" \/ profile2.schedule_type = ""
    THEN RInt(50)
    ELSE LET base_score ==
                 schedule_compatibility(
                     SortedPair(profile1.schedule_type, profile2.schedule_type))
         IN IF profile1.works_from_home = profile2.works_from_home
            THEN RInt(IMin(100, base_score + 10))
            ELSE RInt(base_score)

calculate_habits_compatibility(profile1, profile2) ==
    IF profile1.cleanliness_level = 0 \/ profile2.cleanliness_level = 0
    THEN RInt(50)
    ELSE LET cleanliness_diff ==
                 Abs(profile1.cleanliness_level - profile2.cleanliness_level)
             cleanliness_score == IMax(0, 100 - cleanliness_diff * 12)
             noise_score ==
                 IF profile1.noise_tolerance # 0 /\ profile2.noise_tolerance # 0
                 THEN IMax(0, 100 - Abs(profile1.noise_tolerance
                                        - profile2.noise_tolerance) * 12)
                 ELSE 50
         IN Rat(cleanliness_score + noise_score, 2)

\* getattr(criteria, f'{component}_importance', 3) if criteria else 3
importance(criteria, component) ==
    IF ~criteria.exists THEN 3
    ELSE CASE component = "budget" -> criteria.budget_importance
           [] component = "location" -> criteria.location_importance
           [] component = "lifestyle" -> criteria.lifestyle_importance
           [] component = "schedule" -> criteria.schedule_importance
           [] component = "habits" -> criteria.habits_importance

\* The averaged importances used as weights without the division by their
\* total.
undivided_weights(importance_scores, total_importance) ==
    [budget |-> importance_scores[1], location |-> importance_scores[2],
     lifestyle |-> importance_scores[3], schedule |-> importance_scores[4],
     habits |-> importance_scores[5]]

\* {k: v / total_importance for k, v in importance_scores.items()}
divided_weights(importance_scores, total_importance) ==
    IF RLt(RInt(0), total_importance)
    THEN [budget |-> RDiv(importance_scores[1], total_importance),
          location |-> RDiv(importance_scores[2], total_importance),
          lifestyle |-> RDiv(importance_scores[3], total_importance),
          schedule |-> RDiv(importance_scores[4], total_importance),
          habits |-> RDiv(importance_scores[5], total_importance)]
    ELSE default_weights

\* total_importance = sum(importance_scores.values())
normalized_weights(importance_scores) ==
    divided_weights(importance_scores, RSum(importance_scores))

\* Weights taken from the first user's importances alone: a calculator that
\* is not symmetric in its two users.
first_user_weights(criteria1, criteria2) ==
    IF ~criteria1.exists /\ ~criteria2.exists
    THEN default_weights
    ELSE normalized_weights(
             [i \in 1..Len(Components) |-> RInt(importance(criteria1, Components[i]))])

get_personalized_weights(criteria1, criteria2) ==
    IF ~criteria1.exists /\ ~criteria2.exists
    THEN default_weights
    ELSE normalized_weights(
             [i \in 1..Len(Components) |->
                 Rat(importance(criteria1, Components[i])
                     + importance(criteria2, Components[i]), 2)])

\* The tag words _is_deal_breaker_violated searches for.
SMOKING == <<"s", "m", "o", "k", "i", "n", "g">>
PETS == <<"p", "e", "t", "s">>
PARTYING == <<"p", "a", "r", "t", "y", "i", "n", "g">>
MESSY == <<"m", "e", "s", "s", "y">>

is_deal_breaker_violated(deal_breaker, profile) ==
    LET deal_breaker_lower == Lower(deal_breaker)
    IN \/ Contains(deal_breaker_lower, SMOKING) /\ profile.smoker = "yes"
       \/ Contains(deal_breaker_lower, PETS) /\ profile.pets = "yes"
       \/ Contains(deal_breaker_lower, PARTYING)
          /\ profile.social_level # 0 /\ profile.social_level >= 8
       \/ Contains(deal_breaker_lower, MESSY)
          /\ profile.cleanliness_level # 0 /\ profile.cleanliness_level <= 3

\* today.year - dob.year - ((today.month, today.day) < (dob.month, dob.day));
\* 0 stands for the None of a missing date (both are false to the caller).
calculate_age(date_of_birth) ==
    IF date_of_birth = <<>> THEN 0
    ELSE Today[1] - date_of_birth[1]
         - (IF Today[2] < date_of_birth[2]
               \/ (Today[2] = date_of_birth[2] /\ Today[3] < date_of_birth[3])
            THEN 1 ELSE 0)

\* for breaker in criteria.deal_breakers: if violated: penalty += 50
RECURSIVE breakers_penalty(_, _)
breakers_penalty(deal_breakers, profile) ==
    IF deal_breakers = <<>> THEN 0
    ELSE (IF is_deal_breaker_violated(Head(deal_breakers), profile) THEN 50 ELSE 0)
         + breakers_penalty(Tail(deal_breakers), profile)

\* if criteria and criteria.deal_breakers: the tags of one user checked
\* against the profile `other` of the other user.
user_breakers_penalty(criteria, other) ==
    IF criteria.exists /\ criteria.deal_breakers # <<>>
    THEN breakers_penalty(criteria.deal_breakers, other)
    ELSE 0

age_penalty(criteria, own, other) ==
    IF criteria.exists /\ criteria.strict_age_preference
       /\ own.preferred_age_min # 0 /\ own.preferred_age_max # 0
    THEN LET age == IF other.date_of_birth # <<>>
                    THEN calculate_age(other.date_of_birth) ELSE 0
         IN IF age # 0 /\ ~(own.preferred_age_min <= age /\ age <= own.preferred_age_max)
            THEN 30 ELSE 0
    ELSE 0

gender_penalty(criteria, own, other) ==
    IF criteria.exists /\ criteria.strict_gender_preference
       /\ own.preferred_gender # ""
    THEN IF own.preferred_gender # "any" /\ own.preferred_gender # other.gender
         THEN 40 ELSE 0
    ELSE 0

\* The penalty with each user's tags looked up in that user's own profile.
own_profile_penalty(profile1, profile2, criteria1, criteria2) ==
    IF ~criteria1.exists /\ ~criteria2.exists THEN 0
    ELSE IMin(100,
              user_breakers_penalty(criteria1, profile1)
              + user_breakers_penalty(criteria2, profile2)
              + age_penalty(criteria1, profile1, profile2)
              + age_penalty(criteria2, profile2, profile1)
              + gender_penalty(criteria1, profile1, profile2)
              + gender_penalty(criteria2, profile2, profile1))

calculate_deal_breaker_penalty(profile1, profile2, criteria1, criteria2) ==
    IF ~criteria1.exists /\ ~criteria2.exists THEN 0
    ELSE IMin(100,
              user_breakers_penalty(criteria1, profile2)
              + user_breakers_penalty(criteria2, profile1)
              + age_penalty(criteria1, profile1, profile2)
              + age_penalty(criteria2, profile2, profile1)
              + gender_penalty(criteria1, profile1, profile2)
              + gender_penalty(criteria2, profile2, profile1))

\* weighted - penalty with neither max(0, .) nor min(100, .): what the
\* range of the overall score rests on.
unclamped_overall(weighted, deal_breaker_penalty) ==
    RSub(weighted, RInt(deal_breaker_penalty))

\* overall_score = max(0, weighted - penalty); returned as min(100, max(0, .))
clamp_overall(weighted, deal_breaker_penalty) ==
    RMin(RInt(100),
         RMax(RInt(0),
              RMax(RInt(0), RSub(weighted, RInt(deal_breaker_penalty)))))

\* budget_score * weights['budget'] + ... + habits_score * weights['habits']
weighted_sum(budget_score, location_score, lifestyle_score, schedule_score, habits_score, weights) ==
    RSum(<<RMul(budget_score, weights.budget),
           RMul(location_score, weights.location),
           RMul(lifestyle_score, weights.lifestyle),
           RMul(schedule_score, weights.schedule),
           RMul(habits_score, weights.habits)>>)

\* The rest of calculate_compatibility once the five scores, the weights
\* and the penalty are computed: Decimal * float raises TypeError.
combine_scores(budget, location_score, lifestyle_score, schedule_score, habits_score, weights, deal_breaker_penalty) ==
    IF budget.type = "Decimal"
    THEN [kind |-> "raise", exc |-> "TypeError"]
    ELSE [kind |-> "ok",
          overall_score |->
              clamp_overall(weighted_sum(budget.value, location_score,
                                         lifestyle_score, schedule_score,
                                         habits_score, weights),
                            deal_breaker_penalty),
          budget_score |-> budget.value,
          location_score |-> location_score,
          lifestyle_score |-> lifestyle_score,
          schedule_score |-> schedule_score,
          habits_score |-> habits_score,
          weights |-> weights,
          deal_breaker_penalty |-> deal_breaker_penalty]

\* The outcome of calculate_compatibility(user1, user2), given what
\* user.profile and user.matching_criteria hold for the two users:
\*   kind "error":  the dict returned when a profile does not exist,
\*   kind "raise":  the exception that leaves the method,
\*   kind "ok":     the dict of scores (breakdown: the weights and the
\*                  penalty; its calculation_time is wall-clock time and is
\*                  left out).
calculate_compatibility(profile1, profile2, criteria1, criteria2) ==
    IF ~profile1.exists \/ ~profile2.exists
    THEN [kind |-> "error", overall_score |-> RInt(0),
          error |-> "Missing profile data"]
    ELSE combine_scores(
             calculate_budget_compatibility(profile1, profile2),
             calculate_location_compatibility(profile1, profile2),
             calculate_lifestyle_compatibility(profile1, profile2),
             calculate_schedule_compatibility(profile1, profile2),
             calculate_habits_compatibility(profile1, profile2),
             get_personalized_weights(criteria1, criteria2),
             calculate_deal_breaker_penalty(profile1, profile2,
                                            criteria1, criteria2))

\* ------------------------------------------------------------------------
\* Input data: profiles and criteria the checks draw from
\* ------------------------------------------------------------------------
Str_Bondi == <<"B", "o", "n", "d", "i">>
Str_BONDI == <<"B", "O", "N", "D", "I">>
Str_Glebe == <<"G", "l", "e", "b", "e">>
Str_Manly == <<"M", "a", "n", "l", "y">>
Str_NoPartying == <<"N", "o", " ", "P", "a", "r", "t", "y", "i", "n", "g">>
Str_Smoking == <<"S", "m", "o", "k", "i", "n", "g">>
Str_PetsUpper == <<"P", "E", "T", "S">>
Str_MessyPartying ==
    <<"m", "e", "s", "s", "y", " ", "o", "r", " ",
      "p", "a", "r", "t", "y", "i", "n", "g">>

ProfileTidy ==
    [DefaultProfile EXCEPT
        !.date_of_birth = <<1995, 3, 10>>, !.gender = "female",
        !.preferred_locations = <<Str_Bondi, Str_Glebe>>,
        !.min_budget = 200, !.max_budget = 400,
        !.cleanliness_level = 8, !.noise_tolerance = 5, !.social_level = 6,
        !.schedule_type = "regular",
        !.preferred_age_min = 20, !.preferred_age_max = 30,
        !.preferred_gender = "female_only"]

ProfileParty ==
    [DefaultProfile EXCEPT
        !.date_of_birth = <<1980, 9, 1>>, !.gender = "male",
        !.preferred_locations = <<Str_BONDI>>,
        !.min_budget = 200, !.max_budget = 400,
        !.cleanliness_level = 3, !.noise_tolerance = 9, !.social_level = 9,
        !.smoker = "regularly", !.drinking = "regularly", !.pets = "dog",
        !.schedule_type = "flexible", !.works_from_home = TRUE,
        !.preferred_age_min = 25, !.preferred_age_max = 35,
        !.preferred_gender = "male_only"]

ProfileShifted ==
    [DefaultProfile EXCEPT
        !.date_of_birth = <<1999, 6, 16>>, !.gender = "non_binary",
        !.preferred_locations = <<Str_Glebe>>,
        !.min_budget = 300, !.max_budget = 500,
        !.schedule_type = "regular"]

ProfileFar ==
    [DefaultProfile EXCEPT
        !.date_of_birth = <<2000, 6, 15>>, !.gender = "female",
        !.preferred_locations = <<Str_Manly>>,
        !.min_budget = 450, !.max_budget = 600,
        !.cleanliness_level = 10, !.noise_tolerance = 1, !.social_level = 1,
        !.drinking = "never", !.pets = "cat",
        !.schedule_type = "student",
        !.preferred_gender = "same"]

ProfileTwin ==
    [DefaultProfile EXCEPT
        !.date_of_birth = <<1990, 12, 25>>, !.gender = "female",
        !.preferred_locations = <<Str_Glebe, Str_Bondi, Str_Manly>>,
        !.min_budget = 200, !.max_budget = 400,
        !.cleanliness_level = 8, !.noise_tolerance = 6, !.social_level = 6,
        !.schedule_type = "regular", !.works_from_home = TRUE,
        !.preferred_age_min = 18, !.preferred_age_max = 40]

\* Profiles for the checks of the lookup tables: a row of defaults but for
\* its drinking category, or but for its schedule type and works_from_home.
\* The values are the keys of the two tables of the calculator and choices
\* of the model's fields.
DrinkingValues == {"no", "social", "regular", "never", "socially", "regularly"}

ScheduleValues == {"", "early_bird", "regular", "night_owl", "shift"}

DrinkingProfile(drinking) == [DefaultProfile EXCEPT !.drinking = drinking]

ScheduleProfile(schedule_type, works_from_home) ==
    [DefaultProfile EXCEPT !.schedule_type = schedule_type,
                           !.works_from_home = works_from_home]

\* Lists of preferred locations as LocationPreferencesForm stores them:
\* the entries of the comma-separated input in the order typed, an entry
\* typed twice kept twice.
LocationLists ==
    [none |-> <<>>,
     bondi |-> <<Str_Bondi>>,
     BONDI |-> <<Str_BONDI>>,
     manly |-> <<Str_Manly>>,
     bondi_glebe |-> <<Str_Bondi, Str_Glebe>>,
     bondi_bondi_glebe |-> <<Str_Bondi, Str_Bondi, Str_Glebe>>,
     glebe_bondi_manly |-> <<Str_Glebe, Str_Bondi, Str_Manly>>]

LocationProfile(preferred_locations) ==
    [DefaultProfile EXCEPT !.preferred_locations = preferred_locations]

TableProfiles ==
    {[name |-> "drinking=" \o d, row |-> DrinkingProfile(d)] :
         d \in DrinkingValues}
    \cup {[name |-> "schedule=" \o t, row |-> ScheduleProfile(t, FALSE)] :
              t \in ScheduleValues}
    \cup {[name |-> "home,schedule=" \o t, row |-> ScheduleProfile(t, TRUE)] :
              t \in ScheduleValues}
    \cup {[name |-> "locations=" \o l, row |-> LocationProfile(LocationLists[l])] :
              l \in DOMAIN LocationLists}

TableCatalog == {p.name : p \in TableProfiles}

\* The tables hold the name of a row's content; ProfileRow gives the row.
ProfileCatalog == {"tidy", "party", "shifted", "far", "twin", "default"}

ProfileRow(name) ==
    CASE name = "tidy" -> ProfileTidy
      [] name = "party" -> ProfileParty
      [] name = "shifted" -> ProfileShifted
      [] name = "far" -> ProfileFar
      [] name = "twin" -> ProfileTwin
      [] name = "default" -> DefaultProfile
      [] name = "none" -> NoProfile
      [] OTHER -> (CHOOSE p \in TableProfiles : p.name = name).row

CriteriaStrict ==
    [DefaultCriteria EXCEPT
        !.budget_importance = 1, !.location_importance = 1,
        !.lifestyle_importance = 1, !.schedule_importance = 1,
        !.habits_importance = 1,
        !.deal_breakers = <<Str_NoPartying, MESSY>>,
        !.strict_age_preference = TRUE, !.strict_gender_preference = TRUE]

CriteriaHabits ==
    [DefaultCriteria EXCEPT
        !.budget_importance = 5, !.location_importance = 5,
        !.lifestyle_importance = 5, !.schedule_importance = 5,
        !.habits_importance = 5,
        !.deal_breakers = <<Str_Smoking, Str_PetsUpper>>,
        !.strict_gender_preference = TRUE]

CriteriaOneTag ==
    [DefaultCriteria EXCEPT
        !.budget_importance = 1, !.location_importance = 5,
        !.lifestyle_importance = 3, !.schedule_importance = 2,
        !.habits_importance = 4,
        !.deal_breakers = <<Str_MessyPartying>>,
        !.strict_age_preference = TRUE]

CriteriaCatalog == {"none", "default", "strict", "habits", "one_tag"}

CriteriaRow(name) ==
    CASE name = "strict" -> CriteriaStrict
      [] name = "habits" -> CriteriaHabits
      [] name = "one_tag" -> CriteriaOneTag
      [] name = "default" -> DefaultCriteria
      [] name = "none" -> NoCriteria

\* The MatchingCriteria rows of the catalogue, and no row.
CriteriaRows == {CriteriaRow(name) : name \in CriteriaCatalog}

\* calculate_compatibility on every pair of catalogue rows, computed once.
compatibility_results ==
    [k \in (ProfileCatalog \cup {"none"}) \X (ProfileCatalog \cup {"none"})
            \X CriteriaRows \X CriteriaRows |->
        calculate_compatibility(ProfileRow(k[1]), ProfileRow(k[2]), k[3], k[4])]

\* ------------------------------------------------------------------------
\* State
\* ------------------------------------------------------------------------
Users == 1..NUsers

VARIABLES
    users,          \* accounts_user: id -> [is_active, profile_completed]
    profile,        \* profiles_userprofile: user id -> name of the row, or "none"
    criteria,       \* matchingcriteria: user id -> the row, or NoCriteria
    scores,         \* compatibilityscore: the set of rows
    recs,           \* userrecommendation: the set of rows
    activities,     \* matchingactivity: a bag of rows
    interactions,   \* userinteraction: the rows in insertion order
    conversations,  \* messaging_conversation of type 'direct': the set of
                    \* participants of each
    calls,          \* the calls of calculate_user_compatibility in progress:
                    \* call id -> its position and local variables
    failing_creates,\* the MatchingActivity writes the database refuses now,
                    \* each as <<activity_type, success>>
    response        \* what the last call handed to its caller

vars == <<users, profile, criteria, scores, recs, activities, interactions, conversations, calls, failing_creates, response>>

\* ------------------------------------------------------------------------
\* MatchingService
\* ------------------------------------------------------------------------
\* self.calculator.calculate_compatibility(user1, user2) on the rows the
\* two users hold now
user_compatibility(user1, user2) ==
    compatibility_results[<<profile[user1], profile[user2],
                            criteria[user1], criteria[user2]>>]

\* MatchingActivity.objects.create(...)
log_activity(A, activity_type, success, error_message) ==
    A (+) SetToBag({[activity_type |-> activity_type, success |-> success,
                     error_message |-> error_message]})

\* An exception whose str() is empty.
empty_text(exc) == ""

\* str(e) of the exception that leaves calculate_compatibility or the
\* result['budget_score'] lookup
error_text(exc) ==
    IF exc = "KeyError" THEN "'budget_score'"
    ELSE IF exc = "DatabaseError" THEN "database error"
    ELSE IF exc = "OperationalError" THEN "database is locked"
    ELSE "unsupported operand type(s) for *: 'decimal.Decimal' and 'float'"

\* The pair as the caller gave it: calculate_user_compatibility without
\* its swap, against which the canonical order of the rows is checked.
given_pair(user1, user2) == <<user1, user2>>

\* if user1.id > user2.id: user1, user2 = user2, user1
ordered_pair(user1, user2) ==
    IF user1 > user2 THEN <<user2, user1>> ELSE <<user1, user2>>

\* The row CompatibilityScore.objects.update_or_create(user1=, user2=,
\* defaults=...) writes (calculated_at, a wall-clock time, is left out).
score_row(user1, user2, result) ==
    [user1 |-> user1, user2 |-> user2,
     overall_score |-> result.overall_score,
     budget_score |-> result.budget_score,
     location_score |-> result.location_score,
     lifestyle_score |-> result.lifestyle_score,
     schedule_score |-> result.schedule_score,
     habits_score |-> result.habits_score,
     score_breakdown |-> [weights |-> result.weights,
                          deal_breaker_penalty |-> result.deal_breaker_penalty],
     is_active |-> TRUE]

\* update_or_create on the rows S of CompatibilityScore
score_update_or_create(S, row) ==
    IF \E r \in S : r.user1 = row.user1 /\ r.user2 = row.user2
    THEN {IF r.user1 = row.user1 /\ r.user2 = row.user2 THEN row ELSE r : r \in S}
    ELSE S \cup {row}

\* Whether MatchingActivity.objects.create(activity_type=, success=)
\* raises a database error.
create_fails(activity_type, success) ==
    <<activity_type, success>> \in failing_creates

\* A block whose writes stay when an exception leaves it: the tables as
\* they are inside the block.
kept_on_error(before, inside) == inside

\* with transaction.atomic(): left by an exception, the writes made inside
\* the block are undone.
atomic_exit_on_error(before, inside) == before

\* The except clause of calculate_user_compatibility, entered with the
\* exception exc on the rows S: a failure is logged and exc raised again,
\* or the write of the log raises in its place.
score_failure(S, A, exc) ==
    IF create_fails("score_calculation", FALSE)
    THEN [scores |-> S, activities |-> A,
          outcome |-> [kind |-> "raise", exc |-> "DatabaseError"]]
    ELSE [scores |-> S,
          activities |-> log_activity(A, "score_calculation", FALSE,
                                      error_text(exc)),
          outcome |-> [kind |-> "raise", exc |-> exc]]

\* The row is stored and the success logged; when the log cannot be
\* written the atomic block is left by that exception.
store_row(S, A, row) ==
    IF create_fails("score_calculation", TRUE)
    THEN score_failure(atomic_exit_on_error(S, score_update_or_create(S, row)),
                       A, "DatabaseError")
    ELSE [scores |-> score_update_or_create(S, row),
          activities |-> log_activity(A, "score_calculation", TRUE, ""),
          outcome |-> [kind |-> "ok", row |-> row]]

\* The body of calculate_user_compatibility after
\* result = self.calculator.calculate_compatibility(user1, user2): the row
\* is stored and a success logged, or the exception (KeyError on
\* result['budget_score'] when the calculator returned its error
\* dictionary) is logged and raised again.
store_result(S, A, user1, user2, result) ==
    IF result.kind = "ok"
    THEN store_row(S, A, score_row(user1, user2, result))
    ELSE score_failure(S, A, IF result.kind = "error" THEN "KeyError"
                             ELSE result.exc)

\* calculate_user_compatibility(user1, user2) run on the tables S
\* (CompatibilityScore) and A (MatchingActivity): the tables after it and
\* its outcome, the row returned or the exception raised to the caller.
calculate_user_compatibility(S, A, userA, userB) ==
    LET pair == ordered_pair(userA, userB)
    IN store_result(S, A, pair[1], pair[2], user_compatibility(pair[1], pair[2]))

\* A loop without the except clause's continue: the scores gathered after a
\* failing candidate are lost.
append_or_abort(step, rest) ==
    IF step.outcome.kind = "ok"
    THEN [rest EXCEPT !.compatibility_scores = <<step.outcome.row>> \o @]
    ELSE [rest EXCEPT !.compatibility_scores = <<>>]

\* compatibility_scores.append(compatibility_score) after a call that
\* returned; except Exception: continue after one that raised.
append_scored(step, rest) ==
    [rest EXCEPT !.compatibility_scores =
        (IF step.outcome.kind = "ok" THEN <<step.outcome.row>> ELSE <<>>) \o @]

\* for potential_match in potential_matches: try: ... except: continue
RECURSIVE score_candidates(_, _, _, _)
RECURSIVE score_rest(_, _, _)
score_candidates(target_user, potential_matches, S, A) ==
    IF potential_matches = <<>>
    THEN [scores |-> S, activities |-> A, compatibility_scores |-> <<>>]
    ELSE score_rest(target_user, Tail(potential_matches),
                    calculate_user_compatibility(S, A, target_user,
                                                 Head(potential_matches)))

\* The iterations that follow the one whose outcome is `step`.
score_rest(target_user, potential_matches, step) ==
    append_scored(step, score_candidates(target_user, potential_matches,
                                         step.scores, step.activities))

\* sorted(rows, key=lambda x: x.overall_score, reverse=True): stable, so
\* rows of equal score keep the order they came in.
RECURSIVE insert_by_score(_, _)
insert_by_score(row, sorted) ==
    IF sorted = <<>> THEN <<row>>
    ELSE IF RLt(row.overall_score, Head(sorted).overall_score)
    THEN <<Head(sorted)>> \o insert_by_score(row, Tail(sorted))
    ELSE <<row>> \o sorted

\* The rows in the order they were scored: generate_recommendations
\* without its sort.
unsorted(rows) == rows

RECURSIVE sorted_by_score(_)
sorted_by_score(rows) ==
    IF rows = <<>> THEN <<>>
    ELSE insert_by_score(Head(rows), sorted_by_score(Tail(rows)))

\* seq[:limit] for limit >= 0
take(seq, limit) == SubSeq(seq, 1, IMin(limit, Len(seq)))

\* component_scores.items(): the five components with the score the
\* breakdown of the row holds for each, in the order of the dictionary.
component_scores(compatibility_score) ==
    <<[component |-> "budget", score |-> compatibility_score.budget_score],
      [component |-> "location", score |-> compatibility_score.location_score],
      [component |-> "lifestyle", score |-> compatibility_score.lifestyle_score],
      [component |-> "schedule", score |-> compatibility_score.schedule_score],
      [component |-> "habits", score |-> compatibility_score.habits_score]>>

\* sorted(items, key=lambda x: x[1], reverse=True): stable, so components
\* of equal score keep the order of the dictionary.
RECURSIVE insert_component(_, _)
insert_component(item, sorted) ==
    IF sorted = <<>> THEN <<item>>
    ELSE IF RLt(item.score, Head(sorted).score)
    THEN <<Head(sorted)>> \o insert_component(item, Tail(sorted))
    ELSE <<item>> \o sorted

RECURSIVE sorted_components(_)
sorted_components(items) ==
    IF items = <<>> THEN <<>>
    ELSE insert_component(Head(items), sorted_components(Tail(items)))

component_reasons(component) ==
    CASE component = "budget" -> "You have very compatible budget ranges"
      [] component = "location" -> "You both prefer similar locations"
      [] component = "lifestyle" -> "Your lifestyles are highly compatible"
      [] component = "schedule" -> "Your schedules align well"
      [] component = "habits" -> "You have similar cleanliness and living habits"

\* for component, score in sorted_components[:3]: if score >= 80: append
RECURSIVE high_reasons(_)
high_reasons(top) ==
    IF top = <<>> THEN <<>>
    ELSE (IF RLe(RInt(80), Head(top).score)
          THEN <<component_reasons(Head(top).component)>> ELSE <<>>)
         \o high_reasons(Tail(top))

reason_intro(overall_score) ==
    IF RLe(RInt(90), overall_score) THEN "This is an excellent match! "
    ELSE IF RLe(RInt(80), overall_score)
    THEN "This looks like a great potential roommate. "
    ELSE IF RLe(RInt(70), overall_score) THEN "You have good compatibility. "
    ELSE "There's moderate compatibility here. "

\* " ".join(reasons), as the pieces of the string
RECURSIVE joined(_)
joined(reasons) ==
    IF Len(reasons) <= 1 THEN reasons
    ELSE <<Head(reasons), " ">> \o joined(Tail(reasons))

\* round(x) for a score that is not negative: the nearest integer, a tie
\* going to the even one.
round_half_even(x) ==
    LET q == x[1] \div x[2]
        r == x[1] % x[2]
    IN IF 2 * r < x[2] THEN q
       ELSE IF 2 * r > x[2] THEN q + 1
       ELSE IF q % 2 = 0 THEN q ELSE q + 1

\* f"{x:.0f}": the digits of the rounded score
format_0f(x) == ToString(round_half_even(x))

\* reasons[:2], joined
first_two_reasons(reasons) == joined(take(reasons, 2))

\* intro + " ".join(reasons[:2]) + "." or intro + f"Overall compatibility
\* score: {overall_score:.0f}%.", as the sequence of its pieces
reason_text(overall_score, reasons) ==
    IF reasons # <<>>
    THEN <<reason_intro(overall_score)>> \o first_two_reasons(reasons) \o <<".">>
    ELSE <<reason_intro(overall_score), "Overall compatibility score: ",
           format_0f(overall_score), "%.">>

\* MatchingService._generate_recommendation_reason(compatibility_score)
generate_recommendation_reason(compatibility_score) ==
    reason_text(compatibility_score.overall_score,
                high_reasons(take(sorted_components(
                                      component_scores(compatibility_score)), 3)))

\* A row written without is_dismissed among the defaults: a row that exists
\* keeps its flag, a new one has the field's default.
rec_row_keeping_dismissed(target_user, recommended_user, compatibility_score, old) ==
    [target_user |-> target_user, recommended_user |-> recommended_user,
     compatibility_score |-> <<compatibility_score.user1, compatibility_score.user2>>,
     is_viewed |-> old.is_viewed, is_contacted |-> old.is_contacted,
     viewed_at |-> old.viewed_at, contacted_at |-> old.contacted_at,
     is_dismissed |-> IF "is_dismissed" \in DOMAIN old THEN old.is_dismissed
                      ELSE FALSE]

\* A UserRecommendation row as update_or_create(target_user=,
\* recommended_user=, defaults={compatibility_score, ..., is_dismissed: False})
\* leaves it: the other status flags keep the value `old` has.
rec_row(target_user, recommended_user, compatibility_score, old) ==
    [target_user |-> target_user, recommended_user |-> recommended_user,
     compatibility_score |-> <<compatibility_score.user1, compatibility_score.user2>>,
     is_viewed |-> old.is_viewed, is_contacted |-> old.is_contacted,
     viewed_at |-> old.viewed_at, contacted_at |-> old.contacted_at,
     is_dismissed |-> FALSE]

\* The status flags and timestamps of a row that is created (a timestamp
\* that is NULL is 0).
NewRecFlags ==
    [is_viewed |-> FALSE, is_contacted |-> FALSE,
     viewed_at |-> 0, contacted_at |-> 0]

rec_update_or_create(R, target_user, recommended_user, compatibility_score) ==
    IF \E r \in R : r.target_user = target_user
                    /\ r.recommended_user = recommended_user
    THEN {IF r.target_user = target_user /\ r.recommended_user = recommended_user
          THEN rec_row(target_user, recommended_user, compatibility_score, r)
          ELSE r : r \in R}
    ELSE R \cup {rec_row(target_user, recommended_user, compatibility_score,
                         NewRecFlags)}

\* A resolution that always takes the second user of the pair.
second_of_pair(compatibility_score, target_user) == compatibility_score.user2

\* Which user of the row is the recommended one: the side of the canonical
\* pair that is not the target.
recommended_of(compatibility_score, target_user) ==
    IF compatibility_score.user1 = target_user
    THEN compatibility_score.user2
    ELSE compatibility_score.user1

\* for compatibility_score in top_matches: ... update_or_create ... append
RECURSIVE recommend_all(_, _, _)
recommend_all(target_user, top_matches, R) ==
    IF top_matches = <<>>
    THEN [recs |-> R, recommendations |-> <<>>]
    ELSE LET compatibility_score == Head(top_matches)
             recommended_user == recommended_of(compatibility_score, target_user)
             R1 == rec_update_or_create(R, target_user, recommended_user,
                                        compatibility_score)
             rest == recommend_all(target_user, Tail(top_matches), R1)
         IN [rest EXCEPT !.recommendations =
                <<[recommended_user |-> recommended_user,
                   compatibility_score |-> compatibility_score]>> \o @]

\* User.objects.filter(profile_completed=True, is_active=True)
\*     .exclude(id=target_user.id)
\* The candidates without .exclude(id=target_user.id).
completed_users(target_user) ==
    {u \in Users : users[u].profile_completed /\ users[u].is_active}

candidate_pool(target_user) ==
    {u \in Users \ {target_user} : users[u].profile_completed /\ users[u].is_active}

\* The orders in which a queryset without order_by may yield the set S.
Orderings(S) ==
    {o \in [1..Cardinality(S) -> S] : \A i, j \in 1..Cardinality(S) :
                                          i # j => o[i] # o[j]}

\* An except clause that returns [] without a record of the failure.
failure_unlogged(tables) ==
    [kind |-> "ok", scores |-> tables.scores, recs |-> tables.recs,
     activities |-> tables.activities,
     compatibility_scores |-> <<>>, recommendations |-> <<>>]

\* The except clause of generate_recommendations, entered on the tables
\* the failed transaction left: a failure is logged and [] returned, or
\* the write of the log raises.
recommendations_failure(tables) ==
    IF create_fails("recommendation_generation", FALSE)
    THEN [kind |-> "raise", scores |-> tables.scores, recs |-> tables.recs,
          activities |-> tables.activities,
          compatibility_scores |-> <<>>, recommendations |-> "DatabaseError"]
    ELSE [kind |-> "ok", scores |-> tables.scores, recs |-> tables.recs,
          activities |-> log_activity(tables.activities,
                                      "recommendation_generation", FALSE,
                                      error_text("DatabaseError")),
          compatibility_scores |-> <<>>, recommendations |-> <<>>]

\* The end of generate_recommendations: the activity logged and the list
\* returned, once the scores are stored (scored) and the recommendations
\* written (made).
recommendations_result(scored, made) ==
    IF create_fails("recommendation_generation", TRUE)
    THEN recommendations_failure(
             atomic_exit_on_error(
                 [scores |-> scores, recs |-> recs, activities |-> activities],
                 [scores |-> scored.scores, recs |-> made.recs,
                  activities |-> scored.activities]))
    ELSE [kind |-> "ok",
          scores |-> scored.scores,
          recs |-> made.recs,
          activities |-> log_activity(scored.activities,
                                      "recommendation_generation", TRUE, ""),
          compatibility_scores |-> scored.compatibility_scores,
          recommendations |-> made.recommendations]

\* compatibility_scores.sort(...); top_matches = compatibility_scores[:limit]
\* and the loop that writes a UserRecommendation for each of them.
recommend_top(target_user, limit, scored) ==
    recommendations_result(
        scored,
        recommend_all(target_user,
                      take(sorted_by_score(scored.compatibility_scores), limit),
                      recs))

\* generate_recommendations(target_user, limit) with the candidates coming
\* in the order potential_matches: the tables after it and the list returned.
generate_recommendations(target_user, limit, potential_matches) ==
    recommend_top(target_user, limit,
                  score_candidates(target_user, potential_matches,
                                   scores, activities))

\* UserInteraction.INTERACTION_TYPES: the values of the declared choices.
INTERACTION_TYPES ==
    {"view_profile", "send_message", "like_profile", "dismiss_recommendation",
     "report_user", "block_user"}

\* An interaction whose score is looked up with the users as given,
\* source first.
interaction_row_as_given(source_user, target_user, interaction_type, was_recommended) ==
    LET found == {r \in scores : r.user1 = source_user /\ r.user2 = target_user}
    IN [source_user |-> source_user, target_user |-> target_user,
        interaction_type |-> interaction_type,
        was_recommended |-> was_recommended,
        compatibility_score_at_time |->
            IF found = {} THEN <<>>
            ELSE (CHOOSE r \in found : TRUE).overall_score]

\* record_user_interaction(source_user, target_user, interaction_type,
\* was_recommended): the row appended to UserInteraction
interaction_row(source_user, target_user, interaction_type, was_recommended) ==
    LET pair == IF source_user < target_user
                THEN <<source_user, target_user>>
                ELSE <<target_user, source_user>>
        found == {r \in scores : r.user1 = pair[1] /\ r.user2 = pair[2]}
    IN [source_user |-> source_user, target_user |-> target_user,
        interaction_type |-> interaction_type,
        was_recommended |-> was_recommended,
        compatibility_score_at_time |->
            IF found = {} THEN <<>>
            ELSE (CHOOSE r \in found : TRUE).overall_score]

\* ------------------------------------------------------------------------
\* Initial states
\* ------------------------------------------------------------------------
\* The accounts a deployment holds: renters who finished the profile wizard
\* (profiles/views.py:71), a landlord, whose registration sets
\* profile_completed without creating a profile (accounts/views.py:143), a
\* renter who has only started the wizard, and a deactivated account.
Accounts ==
    <<[is_active |-> TRUE, profile_completed |-> TRUE,
       profile |-> "tidy", criteria |-> "strict"],
      [is_active |-> TRUE, profile_completed |-> TRUE,
       profile |-> "twin", criteria |-> "none"],
      [is_active |-> TRUE, profile_completed |-> TRUE,
       profile |-> "party", criteria |-> "habits"],
      [is_active |-> TRUE, profile_completed |-> TRUE,
       profile |-> "none", criteria |-> "none"],
      [is_active |-> TRUE, profile_completed |-> TRUE,
       profile |-> "shifted", criteria |-> "default"],
      [is_active |-> FALSE, profile_completed |-> TRUE,
       profile |-> "far", criteria |-> "one_tag"],
      [is_active |-> TRUE, profile_completed |-> FALSE,
       profile |-> "default", criteria |-> "none"]>>

\* The account user u holds when the deployment starts at account `first`.
account_of(first, u) == Accounts[((first + u - 2) % Len(Accounts)) + 1]

\* The requests that may run calculate_user_compatibility at the same time.
Calls == {1, 2}

\* A call that is not running.
IdleCall ==
    [pc |-> "idle", userA |-> 0, userB |-> 0, result |-> <<>>,
     found |-> FALSE, exc |-> ""]

NoResponse ==
    [op |-> "none", user |-> 0, other |-> 0, limit |-> 0,
     kind |-> "none", value |-> <<>>, scored |-> <<>>]

EmptyTables ==
    /\ scores = {}
    /\ recs = {}
    /\ activities = EmptyBag
    /\ interactions = <<>>
    /\ conversations = {}
    /\ calls = [c \in Calls |-> IdleCall]
    /\ failing_creates = {}
    /\ response = NoResponse

\* The deployment whose users are the accounts from `first` on, before
\* any call.
InitFrom(first) ==
    /\ users = [u \in Users |->
                  [is_active |-> account_of(first, u).is_active,
                   profile_completed |-> account_of(first, u).profile_completed]]
    /\ profile = [u \in Users |-> account_of(first, u).profile]
    /\ criteria = [u \in Users |-> CriteriaRow(account_of(first, u).criteria)]
    /\ EmptyTables

Init == \E first \in 1..Len(Accounts) : InitFrom(first)

\* Two users with any profile and criteria of the catalogues (or none), for
\* the checks of the calculator; the other users have no profile.
PairUsers == {1, 2}

InitPair ==
    /\ users = [u \in Users |-> [is_active |-> TRUE, profile_completed |-> TRUE]]
    /\ \E p1, p2 \in ProfileCatalog \cup {"none"} :
           profile = [u \in Users |-> IF u = 1 THEN p1
                                      ELSE IF u = 2 THEN p2 ELSE "none"]
    /\ \E c1, c2 \in CriteriaRows :
           criteria = [u \in Users |-> IF u = 1 THEN c1
                                       ELSE IF u = 2 THEN c2 ELSE NoCriteria]
    /\ EmptyTables

\* For the checks of the lookup tables: two users with any two profiles of
\* TableCatalog and no criteria.
InitTables ==
    /\ users = [u \in Users |-> [is_active |-> TRUE, profile_completed |-> TRUE]]
    /\ \E p1, p2 \in TableCatalog :
           profile = [u \in Users |-> IF u = 1 THEN p1
                                      ELSE IF u = 2 THEN p2 ELSE "none"]
    /\ criteria = [u \in Users |-> NoCriteria]
    /\ EmptyTables

\* MinValueValidator(1), MaxValueValidator(5) on the five importances
MaxImportance == 5

\* A MatchingCriteria row with the importances v (in the order of Components).
criteria_with(v) ==
    [DefaultCriteria EXCEPT
        !.budget_importance = v[1], !.location_importance = v[2],
        !.lifestyle_importance = v[3], !.schedule_importance = v[4],
        !.habits_importance = v[5]]

\* For the checks of the weights: user 1 has no criteria or criteria with
\* any five importances, user 2 no criteria or a row of the catalogue.
InitWeights ==
    /\ users = [u \in Users |-> [is_active |-> TRUE, profile_completed |-> TRUE]]
    /\ profile = [u \in Users |-> "none"]
    /\ \E c1 \in {NoCriteria}
                  \cup {criteria_with(v) :
                            v \in [1..Len(Components) -> 1..MaxImportance]},
          c2 \in CriteriaRows :
           criteria = [u \in Users |-> IF u = 1 THEN c1
                                       ELSE IF u = 2 THEN c2 ELSE NoCriteria]
    /\ EmptyTables

\* ------------------------------------------------------------------------
\* Entry points
\* ------------------------------------------------------------------------
Reply(op, user, other, limit, kind, value, scored) ==
    [op |-> op, user |-> user, other |-> other, limit |-> limit,
     kind |-> kind, value |-> value, scored |-> scored]

\* The value an outcome of calculate_user_compatibility carries.
outcome_value(outcome) ==
    IF outcome.kind = "ok" THEN outcome.row ELSE outcome.exc

\* UserRecommendation.objects.filter(target_user=, is_dismissed=False) on
\* the rows R
active_recommendations(R, target_user) ==
    {r \in R : r.target_user = target_user /\ ~r.is_dismissed}

\* views.my_matches: the user's active recommendations
my_matches(request_user) == active_recommendations(recs, request_user)

\* weights = self._get_personalized_weights(criteria1, criteria2), the
\* call calculate_compatibility makes with the criteria of its two users.
personalized_weights_call(user1, user2) ==
    /\ user1 # user2
    /\ response' = Reply("get_personalized_weights", user1, user2, 0, "ok",
                         get_personalized_weights(criteria[user1], criteria[user2]),
                         <<>>)
    /\ UNCHANGED <<calls, conversations, failing_creates, users, profile, criteria, scores, recs, activities, interactions>>

\* What a direct caller of calculate_compatibility gets.
result_reply(user1, user2, result) ==
    Reply("calculate_compatibility", user1, user2, 0, result.kind, result, <<>>)

\* The tables and the response after a view's call of
\* calculate_user_compatibility, whose effect and outcome are `done`.
score_view(op, request_user, other_user, done) ==
    /\ scores' = done.scores
    /\ activities' = done.activities
    /\ response' = Reply(op, request_user, other_user, 0, done.outcome.kind,
                         outcome_value(done.outcome), <<>>)

\* CompatibilityCalculator().calculate_compatibility(user1, user2), called
\* as it stands: it reads, and writes nothing.
calculator_call(user1, user2) ==
    /\ user1 # user2
    /\ response' = result_reply(user1, user2, user_compatibility(user1, user2))
    /\ UNCHANGED <<calls, conversations, failing_creates, users, profile, criteria, scores, recs, activities, interactions>>

\* CompatibilityCalculator()._calculate_lifestyle_compatibility(profile1,
\* profile2) on the profiles of the two users, called as it stands.
lifestyle_call(user1, user2) ==
    /\ user1 # user2
    /\ response' = Reply("calculate_lifestyle_compatibility", user1, user2, 0,
                         "ok",
                         calculate_lifestyle_compatibility(
                             ProfileRow(profile[user1]),
                             ProfileRow(profile[user2])),
                         <<>>)
    /\ UNCHANGED <<calls, conversations, failing_creates, users, profile, criteria, scores, recs, activities, interactions>>

\* CompatibilityCalculator()._calculate_schedule_compatibility(profile1,
\* profile2) on the profiles of the two users, called as it stands.
schedule_call(user1, user2) ==
    /\ user1 # user2
    /\ response' = Reply("calculate_schedule_compatibility", user1, user2, 0,
                         "ok",
                         calculate_schedule_compatibility(
                             ProfileRow(profile[user1]),
                             ProfileRow(profile[user2])),
                         <<>>)
    /\ UNCHANGED <<calls, conversations, failing_creates, users, profile, criteria, scores, recs, activities, interactions>>

\* CompatibilityCalculator()._calculate_location_compatibility(profile1,
\* profile2) on the profiles of the two users, called as it stands.
location_call(user1, user2) ==
    /\ user1 # user2
    /\ response' = Reply("calculate_location_compatibility", user1, user2, 0,
                         "ok",
                         calculate_location_compatibility(
                             ProfileRow(profile[user1]),
                             ProfileRow(profile[user2])),
                         <<>>)
    /\ UNCHANGED <<calls, conversations, failing_creates, users, profile, criteria, scores, recs, activities, interactions>>

\* MatchingService()._generate_recommendation_reason(compatibility_score)
\* on a stored row, called as it stands.
reason_call(compatibility_score) ==
    /\ compatibility_score \in scores
    /\ response' = Reply("generate_recommendation_reason",
                         compatibility_score.user1, compatibility_score.user2, 0,
                         "ok",
                         generate_recommendation_reason(compatibility_score),
                         <<>>)
    /\ UNCHANGED <<calls, conversations, failing_creates, users, profile, criteria, scores, recs, activities, interactions>>

\* views.compatibility_detail: 404 unless the other user is active with a
\* completed profile; the score, or the exception, goes to the client.
compatibility_detail(request_user, other_user) ==
    /\ users[request_user].is_active
    /\ users[other_user].is_active
    /\ users[other_user].profile_completed
    /\ IF other_user = request_user
       THEN /\ response' = Reply("compatibility_detail", request_user, other_user,
                                 0, "redirect", <<>>, <<>>)
            /\ UNCHANGED <<scores, activities>>
       ELSE /\ BagCardinality(activities) < MaxActivities
            /\ score_view("compatibility_detail", request_user, other_user,
                          calculate_user_compatibility(scores, activities,
                                                       request_user, other_user))
    /\ UNCHANGED <<calls, conversations, failing_creates, users, profile, criteria, recs, interactions>>

\* views.connect_with_user, GET: 404 unless the other user is active.
connect_with_user_get(request_user, other_user) ==
    /\ users[request_user].is_active
    /\ users[other_user].is_active
    /\ IF other_user = request_user
       THEN /\ response' = Reply("connect_with_user", request_user, other_user,
                                 0, "redirect", <<>>, <<>>)
            /\ UNCHANGED <<scores, activities>>
       ELSE /\ BagCardinality(activities) < MaxActivities
            /\ score_view("connect_with_user", request_user, other_user,
                          calculate_user_compatibility(scores, activities,
                                                       request_user, other_user))
    /\ UNCHANGED <<calls, conversations, failing_creates, users, profile, criteria, recs, interactions>>

\* The tables and the command's result after generate_recommendations,
\* whose effect and return value are `done`.
command_done(user, limit, done) ==
    /\ scores' = done.scores
    /\ recs' = done.recs
    /\ activities' = done.activities
    /\ response' = Reply("generate_recommendations", user, 0, limit, done.kind,
                         done.recommendations, done.compatibility_scores)

\* calculate_compatibility --user-id U --recommendations --limit L:
\* generate_recommendations(user, limit) in one transaction.
command_recommendations(user, limit) ==
    /\ BagCardinality(activities) + Cardinality(candidate_pool(user)) + 1
           <= MaxActivities
    /\ \E potential_matches \in Orderings(candidate_pool(user)) :
        command_done(user, limit,
                     generate_recommendations(user, limit, potential_matches))
    /\ UNCHANGED <<calls, conversations, failing_creates, users, profile, criteria, interactions>>

\* def generate_recommendations(self, target_user, limit: int = 10)
DefaultLimit == 10

\* The CompatibilityScore row a recommendation references.
score_of(recommendation) ==
    CHOOSE c \in scores : <<c.user1, c.user2>> = recommendation.compatibility_score

\* The stored recommendations in `order`, as the list the service returns.
stored_list(order) ==
    [i \in DOMAIN order |->
        [recommended_user |-> order[i].recommended_user,
         compatibility_score |-> score_of(order[i])]]

\* order_by('-compatibility_score__overall_score')
by_overall_score(order) ==
    \A i, j \in DOMAIN order :
        i < j => RLe(score_of(order[j]).overall_score,
                     score_of(order[i]).overall_score)

\* A service that regenerates whenever it is called.
always_refresh(user, refresh) == TRUE

\* if refresh or not UserRecommendation.objects.filter(target_user=user,
\*                                          is_dismissed=False).exists()
needs_generation(user, refresh) ==
    refresh \/ active_recommendations(recs, user) = {}

\* The tables and the reply after the generate_recommendations(user) that
\* get_user_recommendations returns, whose effect and value are `done`.
service_done(user, done) ==
    /\ scores' = done.scores
    /\ recs' = done.recs
    /\ activities' = done.activities
    /\ response' = Reply("MatchingService.get_user_recommendations", user, 0,
                         DefaultLimit, done.kind, done.recommendations,
                         done.compatibility_scores)

\* MatchingService.get_user_recommendations(user, refresh)
get_user_recommendations(user, refresh) ==
    /\ IF needs_generation(user, refresh)
       THEN /\ BagCardinality(activities) + Cardinality(candidate_pool(user)) + 1
                   <= MaxActivities
            /\ \E potential_matches \in Orderings(candidate_pool(user)) :
                   service_done(user,
                                generate_recommendations(user, DefaultLimit,
                                                         potential_matches))
       ELSE /\ \E order \in Orderings(active_recommendations(recs, user)) :
                   /\ by_overall_score(order)
                   /\ response' = Reply("MatchingService.get_user_recommendations",
                                        user, 0, DefaultLimit, "ok",
                                        stored_list(order), <<>>)
            /\ UNCHANGED <<scores, recs, activities>>
    /\ UNCHANGED <<calls, conversations, failing_creates, users, profile, criteria, interactions>>

\* views.get_user_recommendations: the view calls
\* MatchingService.get_user_recommendations(request.user, limit=...), whose
\* parameters are (user, refresh=False): the call raises TypeError before
\* the method body runs.
get_user_recommendations_view(request_user, limit) ==
    /\ users[request_user].is_active
    /\ IF ~users[request_user].profile_completed
       THEN response' = Reply("get_user_recommendations", request_user, 0, limit,
                              "error", "Profile not completed", <<>>)
       ELSE response' = Reply("get_user_recommendations", request_user, 0, limit,
                              "raise", "TypeError", <<>>)
    /\ UNCHANGED <<calls, conversations, failing_creates, users, profile, criteria, scores, recs, activities, interactions>>

\* The response and the tables after the call of
\* calculate_user_compatibility that connect_with_user makes for the welcome
\* message of a new conversation, whose effect and outcome are `done`: the
\* exception, if any, goes to the client.
connect_welcome(request_user, other_user, done) ==
    /\ scores' = done.scores
    /\ activities' = done.activities
    /\ response' = Reply("connect_with_user_post", request_user, other_user, 0,
                         IF done.outcome.kind = "ok" THEN "redirect" ELSE "raise",
                         IF done.outcome.kind = "ok" THEN <<>> ELSE done.outcome.exc,
                         <<>>)

\* views.connect_with_user, POST: the interaction is recorded, then the
\* direct conversation of the two users is fetched or created, and for a
\* new one the score is calculated.  No transaction spans the view.
connect_with_user_post(request_user, other_user) ==
    /\ users[request_user].is_active
    /\ users[other_user].is_active
    /\ IF other_user = request_user
       THEN /\ response' = Reply("connect_with_user_post", request_user,
                                 other_user, 0, "redirect", <<>>, <<>>)
            /\ UNCHANGED <<scores, activities, interactions, conversations>>
       ELSE /\ Len(interactions) < MaxInteractions
            /\ interactions' = Append(interactions,
                                      interaction_row(request_user, other_user,
                                                      "connect", TRUE))
            /\ IF {request_user, other_user} \in conversations
               THEN /\ response' = Reply("connect_with_user_post", request_user,
                                         other_user, 0, "redirect", <<>>, <<>>)
                    /\ UNCHANGED <<scores, activities, conversations>>
               ELSE /\ BagCardinality(activities) < MaxActivities
                    /\ conversations' = conversations
                                            \cup {{request_user, other_user}}
                    /\ connect_welcome(request_user, other_user,
                                       calculate_user_compatibility(
                                           scores, activities,
                                           request_user, other_user))
    /\ UNCHANGED <<calls, failing_creates, users, profile, criteria, recs>>

\* UserProfile.is_complete of a row; `filled` tells whether occupation,
\* preferred_room_type and bio, which the rows here do not carry, are set.
is_complete(row, filled) ==
    /\ row.date_of_birth # <<>>
    /\ row.min_budget # 0
    /\ row.max_budget # 0
    /\ row.cleanliness_level # 0
    /\ filled

\* A save that drops the scores of the user whose profile changed.
profile_save_invalidating(user, name, filled) ==
    /\ users[user].is_active
    /\ profile' = [profile EXCEPT ![user] = name]
    /\ users' = IF is_complete(ProfileRow(name), filled)
                    /\ ~users[user].profile_completed
                 THEN [users EXCEPT ![user].profile_completed = TRUE]
                 ELSE users
    /\ scores' = {r \in scores : r.user1 # user /\ r.user2 # user}
    /\ response' = Reply("profile_save", user, 0, 0, "redirect", <<>>, <<>>)
    /\ UNCHANGED <<calls, conversations, failing_creates, criteria, recs,
                   activities, interactions>>

\* UserProfile.save() of the user's row with the content `name` (the
\* form.save() of profile_setup_step and profile_edit, after their
\* get_or_create): the row is written, and a complete row marks the user's
\* profile as completed.  Nothing else is touched.
profile_save(user, name, filled) ==
    /\ users[user].is_active
    /\ profile' = [profile EXCEPT ![user] = name]
    /\ users' = IF is_complete(ProfileRow(name), filled)
                    /\ ~users[user].profile_completed
                 THEN [users EXCEPT ![user].profile_completed = TRUE]
                 ELSE users
    /\ response' = Reply("profile_save", user, 0, 0, "redirect", <<>>, <<>>)
    /\ UNCHANGED <<calls, conversations, failing_creates, criteria, scores, recs,
                   activities, interactions>>

\* MatchingCriteria.save() of the user's row (the model is edited through
\* its admin page only): the row is written.
criteria_save(user, row) ==
    /\ row.exists
    /\ criteria' = [criteria EXCEPT ![user] = row]
    /\ response' = Reply("criteria_save", user, 0, 0, "redirect", <<>>, <<>>)
    /\ UNCHANGED <<calls, conversations, failing_creates, users, profile, scores, recs,
                   activities, interactions>>

\* ------------------------------------------------------------------------
\* calculate_user_compatibility step by step, for calls that overlap.  The
\* database is the sqlite3 file of settings/development.py: a transaction
\* holds a SHARED lock from its first read to its end and a RESERVED lock
\* from its first write; a write is refused at once ('database is locked')
\* to a reader while another transaction holds RESERVED; a commit waits
\* until no other transaction holds SHARED.
\* ------------------------------------------------------------------------
holds_shared(c) == calls[c].pc \in {"computed", "got", "put"}

holds_reserved(c) == calls[c].pc = "put"

\* The canonical pair of the call c.
call_pair(c) == ordered_pair(calls[c].userA, calls[c].userB)

\* An update that leaves the overall score of the row it finds.
updated_keeping_overall(S, row) ==
    IF \E r \in S : r.user1 = row.user1 /\ r.user2 = row.user2
    THEN [row EXCEPT !.overall_score =
             (CHOOSE r \in S : r.user1 = row.user1 /\ r.user2 = row.user2)
                 .overall_score]
    ELSE row

\* The row update_or_create leaves for the pair: every field of defaults
\* is set from the one result, on a row found as on a row created.
updated_row(S, row) == row

\* The call is entered and the two users are put in order; `with
\* transaction.atomic():` begins a deferred transaction.
race_start(c, userA, userB) ==
    /\ calls[c].pc = "idle"
    /\ userA # userB
    /\ BagCardinality(activities)
           + Cardinality({d \in Calls : calls[d].pc # "idle"}) < MaxActivities
    /\ calls' = [calls EXCEPT ![c] = [IdleCall EXCEPT !.pc = "started",
                                                       !.userA = userA,
                                                       !.userB = userB]]
    /\ UNCHANGED <<users, profile, criteria, scores, recs, activities,
                   interactions, conversations, failing_creates, response>>

\* The position of call c after result = calculate_compatibility(...), whose
\* result in `result`: an error dictionary or an exception leaves the block.
computed(c, result) ==
    IF result.kind = "ok"
    THEN [calls[c] EXCEPT !.pc = "computed", !.result = result]
    ELSE [calls[c] EXCEPT !.pc = "failed",
                          !.exc = IF result.kind = "error" THEN "KeyError"
                                  ELSE result.exc]

\* result = self.calculator.calculate_compatibility(user1, user2): the
\* profiles and criteria are read as they are committed now.
race_compute(c) ==
    /\ calls[c].pc = "started"
    /\ calls' = [calls EXCEPT ![c] =
                    computed(c, user_compatibility(call_pair(c)[1],
                                                   call_pair(c)[2]))]
    /\ UNCHANGED <<users, profile, criteria, scores, recs, activities,
                   interactions, conversations, failing_creates, response>>

\* update_or_create, its SELECT: is there a committed row of the pair
race_get(c) ==
    /\ calls[c].pc = "computed"
    /\ calls' = [calls EXCEPT ![c].pc = "got",
                              ![c].found =
                                  \E r \in scores : /\ r.user1 = call_pair(c)[1]
                                                     /\ r.user2 = call_pair(c)[2]]
    /\ UNCHANGED <<users, profile, criteria, scores, recs, activities,
                   interactions, conversations, failing_creates, response>>

\* update_or_create, its INSERT or UPDATE: refused when another call holds
\* the RESERVED lock, and the exception leaves the atomic block.
race_put(c) ==
    /\ calls[c].pc = "got"
    /\ calls' = [calls EXCEPT ![c] =
                    IF \E d \in Calls \ {c} : holds_reserved(d)
                    THEN [@ EXCEPT !.pc = "failed", !.exc = "OperationalError"]
                    ELSE [@ EXCEPT !.pc = "put"]]
    /\ UNCHANGED <<users, profile, criteria, scores, recs, activities,
                   interactions, conversations, failing_creates, response>>

\* MatchingActivity.objects.create(success=True) and the end of the atomic
\* block: the row and the record are committed, once no other call reads.
race_commit(c) ==
    /\ calls[c].pc = "put"
    /\ \A d \in Calls \ {c} : ~holds_shared(d)
    /\ scores' = score_update_or_create(
                     scores,
                     updated_row(scores, score_row(call_pair(c)[1], call_pair(c)[2],
                                                   calls[c].result)))
    /\ activities' = log_activity(activities, "score_calculation", TRUE, "")
    /\ response' = Reply("calculate_user_compatibility", calls[c].userA,
                         calls[c].userB, 0, "ok",
                         updated_row(scores, score_row(call_pair(c)[1], call_pair(c)[2],
                                                       calls[c].result)),
                         <<>>)
    /\ calls' = [calls EXCEPT ![c] = IdleCall]
    /\ UNCHANGED <<users, profile, criteria, recs, interactions, conversations,
                   failing_creates>>

\* except Exception: the failure is logged, in a transaction of its own
\* that waits for the locks of the other calls, and raised again.
race_raise(c) ==
    /\ calls[c].pc = "failed"
    /\ \A d \in Calls \ {c} : ~holds_shared(d)
    /\ activities' = log_activity(activities, "score_calculation", FALSE,
                                  error_text(calls[c].exc))
    /\ response' = Reply("calculate_user_compatibility", calls[c].userA,
                         calls[c].userB, 0, "raise", calls[c].exc, <<>>)
    /\ calls' = [calls EXCEPT ![c] = IdleCall]
    /\ UNCHANGED <<users, profile, criteria, scores, recs, interactions,
                   conversations, failing_creates>>

\* A profile is saved while calls run: the write waits until no call reads.
race_profile_save(user, name, filled) ==
    /\ \A d \in Calls : ~holds_shared(d)
    /\ profile_save(user, name, filled)

\* A dismissal that deletes the row instead of flagging it.
delete_recommendation(request_user, recommendation) ==
    /\ users[request_user].is_active
    /\ recommendation \in recs
    /\ recommendation.target_user = request_user
    /\ Len(interactions) < MaxInteractions
    /\ recs' = recs \ {recommendation}
    /\ interactions' = Append(interactions,
                              interaction_row(request_user,
                                              recommendation.recommended_user,
                                              "dismiss", TRUE))
    /\ response' = Reply("dismiss_recommendation", request_user,
                         recommendation.recommended_user, 0, "redirect",
                         <<>>, <<>>)
    /\ UNCHANGED <<calls, conversations, failing_creates, users, profile, criteria, scores, activities>>

\* views.dismiss_recommendation: 404 unless the recommendation is the
\* requesting user's.
dismiss_recommendation(request_user, recommendation) ==
    /\ users[request_user].is_active
    /\ recommendation \in recs
    /\ recommendation.target_user = request_user
    /\ Len(interactions) < MaxInteractions
    /\ recs' = (recs \ {recommendation})
                 \cup {[recommendation EXCEPT !.is_dismissed = TRUE]}
    /\ interactions' = Append(interactions,
                              interaction_row(request_user,
                                              recommendation.recommended_user,
                                              "dismiss", TRUE))
    /\ response' = Reply("dismiss_recommendation", request_user,
                         recommendation.recommended_user, 0, "redirect",
                         <<>>, <<>>)
    /\ UNCHANGED <<calls, conversations, failing_creates, users, profile, criteria, scores, activities>>

\* The row of R with the primary key of recommendation, which the model
\* takes from the unique pair (target_user, recommended_user).
same_row(R, recommendation) ==
    {r \in R : /\ r.target_user = recommendation.target_user
               /\ r.recommended_user = recommendation.recommended_user}

\* A mark that writes its flag and time whatever the row holds.
marked_again(flag, at, now) == [flag |-> TRUE, at |-> now]

\* if not self.is_viewed: self.is_viewed = True; self.viewed_at = now
\* (likewise for contacted): the flag and the time after the method.
marked(flag, at, now) ==
    IF ~flag THEN [flag |-> TRUE, at |-> now] ELSE [flag |-> flag, at |-> at]

\* UserRecommendation.mark_viewed() on the row as it is stored, at the time
\* `now` of timezone.now(): save(update_fields=['is_viewed', 'viewed_at']).
mark_viewed(recommendation, now) ==
    /\ recommendation \in recs
    /\ recs' = (recs \ {recommendation})
                 \cup {[recommendation EXCEPT
                           !.is_viewed = marked(recommendation.is_viewed,
                                                recommendation.viewed_at, now).flag,
                           !.viewed_at = marked(recommendation.is_viewed,
                                                recommendation.viewed_at, now).at]}
    /\ response' = Reply("mark_viewed", recommendation.target_user,
                         recommendation.recommended_user, 0, "ok", <<>>, <<>>)
    /\ UNCHANGED <<calls, conversations, failing_creates, users, profile, criteria, scores, activities, interactions>>

\* UserRecommendation.mark_contacted() on the row as it is stored.
mark_contacted(recommendation, now) ==
    /\ recommendation \in recs
    /\ recs' = (recs \ {recommendation})
                 \cup {[recommendation EXCEPT
                           !.is_contacted = marked(recommendation.is_contacted,
                                                   recommendation.contacted_at, now).flag,
                           !.contacted_at = marked(recommendation.is_contacted,
                                                   recommendation.contacted_at, now).at]}
    /\ response' = Reply("mark_contacted", recommendation.target_user,
                         recommendation.recommended_user, 0, "ok", <<>>, <<>>)
    /\ UNCHANGED <<calls, conversations, failing_creates, users, profile, criteria, scores, activities, interactions>>

\* The writes of the activity log the database may refuse together: none,
\* the success record of one kind of activity, both records of one kind,
\* or every write to the table.
FaultCatalog ==
    {{},
     {<<"score_calculation", TRUE>>},
     {<<"score_calculation", TRUE>>, <<"score_calculation", FALSE>>},
     {<<"recommendation_generation", TRUE>>},
     {<<"recommendation_generation", TRUE>>, <<"recommendation_generation", FALSE>>},
     {"score_calculation", "recommendation_generation"} \X BOOLEAN}

\* The database starts or stops refusing writes of the activity log: a
\* lock held by another connection (sqlite: 'database is locked'), or the
\* CHECK constraint of execution_time_ms, a PositiveIntegerField that is
\* given int((time.time() - start_time) * 1000), negative when the wall
\* clock was set back during the call.
database_fault(refused) ==
    /\ refused # failing_creates
    /\ failing_creates' = refused
    /\ UNCHANGED <<users, profile, criteria, scores, recs, activities,
                   interactions, conversations, calls, response>>

Next ==
    \/ \E u, v \in Users : compatibility_detail(u, v)
    \/ \E u, v \in Users : connect_with_user_get(u, v)
    \/ \E u \in Users, limit \in 0..MaxLimit : command_recommendations(u, limit)
    \/ \E u \in Users, limit \in 0..MaxLimit : get_user_recommendations_view(u, limit)
    \/ \E u \in Users : \E r \in recs : dismiss_recommendation(u, r)

Spec == Init /\ [][Next]_vars

NextPair ==
    \/ \E u, v \in PairUsers : calculator_call(u, v)
    \/ \E u, v \in PairUsers : compatibility_detail(u, v)
    \/ \E row \in scores : reason_call(row)

SpecPair == InitPair /\ [][NextPair]_vars

\* The calls of the service while the database may refuse writes of the
\* activity log.
NextFaults ==
    \/ \E u, v \in Users : compatibility_detail(u, v)
    \/ \E u \in Users, limit \in 0..MaxLimit : command_recommendations(u, limit)
    \/ \E refused \in FaultCatalog : database_fault(refused)

\* The edits of the checks: the users who save their profile and the row
\* they save, the users whose criteria are saved and the row saved.
ProfileEditors == {1, 2}

SavedProfiles == {"far"}

CriteriaEditors == {2}

SavedCriteria == {CriteriaOneTag}

\* The calls that score, among edits of profiles and criteria.
NextEdits ==
    \/ \E u, v \in Users : compatibility_detail(u, v)
    \/ \E u \in Users, limit \in 0..MaxLimit : command_recommendations(u, limit)
    \/ \E u \in ProfileEditors, name \in SavedProfiles, filled \in BOOLEAN :
           profile_save(u, name, filled)
    \/ \E u \in CriteriaEditors, row \in SavedCriteria : criteria_save(u, row)

\* The deployment the edits start from: three renters who can be scored.
EditStarts == {1}

InitEdits == \E first \in EditStarts : InitFrom(first)

SpecEdits == InitEdits /\ [][NextEdits]_vars

\* The calls that record interactions, among calls that score and an edit
\* that changes a score: the users connect with the two who edit, in both
\* directions, and dismiss whom they were recommended.
NextInteractions ==
    \/ \E u, v \in ProfileEditors : compatibility_detail(u, v)
    \/ \E u \in ProfileEditors, limit \in 0..MaxLimit :
           command_recommendations(u, limit)
    \/ \E u \in Users : \E r \in recs : dismiss_recommendation(u, r)
    \/ \E u \in Users, v \in ProfileEditors : connect_with_user_post(u, v)
    \/ \E name \in SavedProfiles, filled \in BOOLEAN : profile_save(1, name, filled)

SpecInteractions == InitEdits /\ [][NextInteractions]_vars

\* Calls of calculate_user_compatibility for one pair of users, in both
\* argument orders, that overlap, and a save of a profile of the pair.
NextRace ==
    \/ \E c \in Calls : \E u, v \in ProfileEditors : race_start(c, u, v)
    \/ \E c \in Calls : race_compute(c)
    \/ \E c \in Calls : race_get(c)
    \/ \E c \in Calls : race_put(c)
    \/ \E c \in Calls : race_commit(c)
    \/ \E c \in Calls : race_raise(c)
    \/ \E u \in ProfileEditors, name \in SavedProfiles, filled \in BOOLEAN :
           race_profile_save(u, name, filled)

SpecRace == InitEdits /\ [][NextRace]_vars

\* The deployments the calls under faults start from: three renters who
\* can be scored, and a renter among a landlord and a renter whose budget
\* overlaps partly.
FaultStarts == {1, 3}

InitFaults == \E first \in FaultStarts : InitFrom(first)

SpecFaults == InitFaults /\ [][NextFaults]_vars

\* The clock readings timezone.now() gives the marks.
MaxTime == 2

\* The users whose recommendations the checks of the status flags follow.
StatusUsers == {2, 3}

\* Recommendations are generated, read through the service, marked viewed
\* and contacted, and dismissed, one operation after the other.
NextStatus ==
    \/ \E u \in StatusUsers, limit \in 1..MaxLimit : command_recommendations(u, limit)
    \/ \E u \in StatusUsers, refresh \in BOOLEAN : get_user_recommendations(u, refresh)
    \/ \E u \in StatusUsers : \E r \in recs : dismiss_recommendation(u, r)
    \/ \E r \in recs, now \in 1..MaxTime : mark_viewed(r, now)
    \/ \E r \in recs, now \in 1..MaxTime : mark_contacted(r, now)

\* views.dismiss_recommendation step by step, for requests that overlap
\* other operations.  The view runs outside a transaction: the SELECT of
\* get_object_or_404 and the UPDATE of save() are two statements, and what
\* commits between them is not in the instance the view holds.
\* recommendation = get_object_or_404(UserRecommendation, id=, target_user=)
dismiss_load(c, request_user, recommendation) ==
    /\ calls[c].pc = "idle"
    /\ users[request_user].is_active
    /\ recommendation \in recs
    /\ recommendation.target_user = request_user
    /\ Len(interactions) + Cardinality({d \in Calls : calls[d].pc = "loaded"})
           < MaxInteractions
    /\ calls' = [calls EXCEPT ![c] =
                    [IdleCall EXCEPT !.pc = "loaded",
                                     !.userA = request_user,
                                     !.userB = recommendation.recommended_user,
                                     !.result = recommendation]]
    /\ UNCHANGED <<users, profile, criteria, scores, recs, activities,
                   interactions, conversations, failing_creates, response>>

\* The row Model.save() leaves: without update_fields the UPDATE sets
\* every column from the instance.
saved_instance(row, instance) == instance

\* recommendation.is_dismissed = True; recommendation.save(); the
\* interaction is recorded and the view redirects.
dismiss_save(c) ==
    /\ calls[c].pc = "loaded"
    /\ recs' = {IF r \in same_row(recs, calls[c].result)
                THEN saved_instance(r, [calls[c].result EXCEPT !.is_dismissed = TRUE])
                ELSE r : r \in recs}
    /\ interactions' = Append(interactions,
                              interaction_row(calls[c].userA, calls[c].userB,
                                              "dismiss", TRUE))
    /\ response' = Reply("dismiss_recommendation", calls[c].userA,
                         calls[c].userB, 0, "redirect", <<>>, <<>>)
    /\ calls' = [calls EXCEPT ![c] = IdleCall]
    /\ UNCHANGED <<conversations, failing_creates, users, profile, criteria, scores, activities>>

\* Dismissals in two steps each, among marks and regenerations of the
\* recommendations.
NextDismiss ==
    \/ \E u \in StatusUsers, limit \in 1..MaxLimit : command_recommendations(u, limit)
    \/ \E c \in Calls, u \in StatusUsers : \E r \in recs : dismiss_load(c, u, r)
    \/ \E c \in Calls : dismiss_save(c)
    \/ \E r \in recs, now \in 1..MaxTime : mark_viewed(r, now)
    \/ \E r \in recs, now \in 1..MaxTime : mark_contacted(r, now)

\* The deployment the checks of the status flags start from: a renter who
\* has not completed the wizard and two renters who can be scored.
StatusStarts == {7}

InitStatus == \E first \in StatusStarts : InitFrom(first)

SpecStatus == InitStatus /\ [][NextStatus]_vars

SpecDismiss == InitStatus /\ [][NextDismiss]_vars

NextTables ==
    \/ \E u, v \in PairUsers : lifestyle_call(u, v)
    \/ \E u, v \in PairUsers : schedule_call(u, v)
    \/ \E u, v \in PairUsers : location_call(u, v)

SpecTables == InitTables /\ [][NextTables]_vars

NextWeights == \E u, v \in PairUsers : personalized_weights_call(u, v)

SpecWeights == InitWeights /\ [][NextWeights]_vars

\* ------------------------------------------------------------------------
\* Properties
\* ------------------------------------------------------------------------
\* The MatchingActivity row of a score calculation that succeeded.
ScoreCalculated ==
    [activity_type |-> "score_calculation", success |-> TRUE, error_message |-> ""]

\* C1: the store holds at most one CompatibilityScore row per unordered pair
\* of users, every row has user1 < user2, and the row a call returns, in
\* whichever order its two users were given and whether the call came from
\* a view or from generate_recommendations, is the one row of that pair.
C1_OneRowPerPair ==
    /\ \A r \in scores : r.user1 < r.user2
    /\ \A r1, r2 \in scores :
           {r1.user1, r1.user2} = {r2.user1, r2.user2} => r1 = r2
    /\ (response.op \in {"compatibility_detail", "connect_with_user"}
        /\ response.kind = "ok")
       => /\ response.value \in scores
          /\ {response.value.user1, response.value.user2}
                 = {response.user, response.other}
    /\ response.op = "generate_recommendations"
       => \A i \in 1..Len(response.scored) :
              /\ response.scored[i] \in scores
              /\ response.user \in {response.scored[i].user1,
                                    response.scored[i].user2}

\* Two calculations have succeeded, the last one called with the higher id
\* first, and the store holds one row.
C1_Witness ==
    /\ response.op = "compatibility_detail"
    /\ response.kind = "ok"
    /\ response.user > response.other
    /\ Cardinality(scores) = 1
    /\ CopiesIn(ScoreCalculated, activities) >= 2

\* 0 <= x <= 100
InScoreRange(x) == RLe(RInt(0), x) /\ RLe(x, RInt(100))

\* C2: the overall_score calculate_compatibility returns for two existing
\* profiles lies in [0, 100], and so does the overall_score of every
\* CompatibilityScore row in every reachable state.
C2_OverallInRange ==
    /\ (response.op = "calculate_compatibility" /\ response.kind = "ok")
       => InScoreRange(response.value.overall_score)
    /\ \A r \in scores : InScoreRange(r.overall_score)

\* A row is stored whose weighted sum is below its penalty: the score is 0
\* by the clamp alone.
C2_Witness ==
    /\ response.op = "compatibility_detail"
    /\ response.kind = "ok"
    /\ response.value \in scores
    /\ response.value.overall_score = RInt(0)
    /\ RLt(RInt(0),
           weighted_sum(response.value.budget_score, response.value.location_score,
                        response.value.lifestyle_score, response.value.schedule_score,
                        response.value.habits_score,
                        response.value.score_breakdown.weights))
    /\ RLt(weighted_sum(response.value.budget_score, response.value.location_score,
                        response.value.lifestyle_score, response.value.schedule_score,
                        response.value.habits_score,
                        response.value.score_breakdown.weights),
           RInt(response.value.score_breakdown.deal_breaker_penalty))

\* C3: calculate_compatibility(A, B) and calculate_compatibility(B, A) give
\* the same result: the same overall score, five dimension scores, weights
\* and deal-breaker penalty, or the same error.
C3_Symmetric ==
    response.op = "calculate_compatibility"
    => response.value = user_compatibility(response.other, response.user)

\* A result for two users whose profiles and criteria differ, with
\* personalized weights and a penalty that is neither 0 nor capped.
C3_Witness ==
    /\ response.op = "calculate_compatibility"
    /\ response.kind = "ok"
    /\ profile[response.user] # profile[response.other]
    /\ criteria[response.user] # criteria[response.other]
    /\ criteria[response.user].exists
    /\ response.value.weights # default_weights
    /\ response.value.deal_breaker_penalty \in 1..99
    /\ RLt(RInt(0), response.value.overall_score)

\* The pairs <<user1, user2>> of the rows of a list of recommendations.
RecommendedScores(recommendations) ==
    {recommendations[i].compatibility_score : i \in 1..Len(recommendations)}

\* C4: generate_recommendations(target, limit) returns at most limit
\* recommendations, their overall scores do not increase from first to
\* last, and no scored candidate left out of the list has a strictly higher
\* overall score than one that is in it.
C4_TopByScore ==
    response.op = "generate_recommendations"
    => /\ Len(response.value) <= response.limit
       /\ \A i, j \in 1..Len(response.value) :
              i < j => RLe(response.value[j].compatibility_score.overall_score,
                           response.value[i].compatibility_score.overall_score)
       /\ \A k \in 1..Len(response.scored) :
              response.scored[k] \notin RecommendedScores(response.value)
              => \A i \in 1..Len(response.value) :
                     RLe(response.scored[k].overall_score,
                         response.value[i].compatibility_score.overall_score)

\* Two candidates were scored, the lower score first; the limit of 1 left
\* the first of them out.
C4_Witness ==
    /\ response.op = "generate_recommendations"
    /\ response.limit = 1
    /\ Len(response.scored) = 2
    /\ RLt(response.scored[1].overall_score, response.scored[2].overall_score)
    /\ Len(response.value) = 1
    /\ response.value[1].compatibility_score = response.scored[2]

\* C5: the list get_user_recommendations serves to a client whose profile
\* is completed has at most as many entries as the limit the client asked
\* for.
C5_ServedWithinLimit ==
    (response.op = "get_user_recommendations"
     /\ users[response.user].profile_completed)
    => /\ response.kind = "ok"
       /\ Len(response.value) <= response.limit

\* The candidates of target_user whose score calculation returns a row.
Scorable(target_user) ==
    {v \in candidate_pool(target_user) :
        user_compatibility(ordered_pair(target_user, v)[1],
                           ordered_pair(target_user, v)[2]).kind = "ok"}

\* C6: generate_recommendations raises nothing; the candidates whose
\* scoring fails are skipped and all the others are scored, wherever in the
\* iteration the failures fall; the list returned holds the scored
\* candidates, up to limit; with no candidate, or none that can be scored,
\* it is empty.
C6_FailuresSkipped ==
    response.op = "generate_recommendations"
    => /\ response.kind = "ok"
       /\ Len(response.scored) = Cardinality(Scorable(response.user))
       /\ {{response.scored[i].user1, response.scored[i].user2} :
               i \in 1..Len(response.scored)}
              = {{response.user, v} : v \in Scorable(response.user)}
       /\ Len(response.value)
              = IMin(response.limit, Cardinality(Scorable(response.user)))
       /\ \A i \in 1..Len(response.value) :
              response.value[i].recommended_user \in Scorable(response.user)
       /\ Scorable(response.user) = {} => response.value = <<>>

\* A batch over two candidates of which one fails: the other one is
\* recommended.
C6_Witness ==
    /\ response.op = "generate_recommendations"
    /\ Cardinality(candidate_pool(response.user)) = 2
    /\ Cardinality(Scorable(response.user)) = 1
    /\ response.limit >= 1
    /\ Len(response.value) = 1

\* C7: when either user has no profile, calculate_compatibility and
\* calculate_user_compatibility hand their caller an error result with
\* overall_score 0 and the missing-profile marker.
C7_MissingProfileResult ==
    (/\ response.op \in {"calculate_compatibility", "compatibility_detail"}
     /\ response.user # response.other
     /\ (profile[response.user] = "none" \/ profile[response.other] = "none"))
    => /\ response.kind = "error"
       /\ response.value.overall_score = RInt(0)
       /\ response.value.error = "Missing profile data"

\* The number of tags of deal_breakers that profile violates.
ViolatedTags(deal_breakers, other) ==
    Cardinality({i \in 1..Len(deal_breakers) :
                    is_deal_breaker_violated(deal_breakers[i], other)})

\* 1 if the user with these criteria and the profile own states a strict
\* age preference that the age of other falls outside, else 0.
AgeOutside(crit, own, other) ==
    IF /\ crit.strict_age_preference
       /\ own.preferred_age_min # 0 /\ own.preferred_age_max # 0
       /\ other.date_of_birth # <<>>
       /\ calculate_age(other.date_of_birth) # 0
       /\ (calculate_age(other.date_of_birth) < own.preferred_age_min
           \/ calculate_age(other.date_of_birth) > own.preferred_age_max)
    THEN 1 ELSE 0

\* 1 if the user states a strict gender preference other than 'any' that
\* the gender of other does not equal, else 0.
GenderUnequal(crit, own, other) ==
    IF /\ crit.strict_gender_preference
       /\ own.preferred_gender \notin {"", "any"}
       /\ own.preferred_gender # other.gender
    THEN 1 ELSE 0

\* 50 per violated tag, 30 and 40 per strict preference missed, for the
\* user with the criteria crit and the profile own against the profile other.
PenaltyShare(crit, own, other) ==
    IF crit.exists
    THEN 50 * ViolatedTags(crit.deal_breakers, other)
         + 30 * AgeOutside(crit, own, other)
         + 40 * GenderUnequal(crit, own, other)
    ELSE 0

\* C8: the deal-breaker penalty is min(100, 50 for each tag of either user
\* that the other user's profile violates + 30 for each strict age
\* preference the other user's age falls outside + 40 for each strict
\* gender preference, not 'any', that the other user's gender does not
\* equal); no tag is evaluated against its owner's profile.
C8_PenaltyFormula ==
    (response.op = "calculate_compatibility" /\ response.kind = "ok")
    => response.value.deal_breaker_penalty
           = IMin(100,
                  PenaltyShare(criteria[response.user],
                               ProfileRow(profile[response.user]),
                               ProfileRow(profile[response.other]))
                  + PenaltyShare(criteria[response.other],
                                 ProfileRow(profile[response.other]),
                                 ProfileRow(profile[response.user])))

\* A penalty of 50: one tag that the other user's profile violates, while a
\* tag of the first user that this user's own profile violates, and the
\* other's does not, adds nothing.
C8_Witness ==
    /\ response.op = "calculate_compatibility"
    /\ response.kind = "ok"
    /\ response.value.deal_breaker_penalty = 50
    /\ criteria[response.user].exists
    /\ \E i \in 1..Len(criteria[response.user].deal_breakers) :
           /\ is_deal_breaker_violated(criteria[response.user].deal_breakers[i],
                                       ProfileRow(profile[response.user]))
           /\ ~is_deal_breaker_violated(criteria[response.user].deal_breakers[i],
                                        ProfileRow(profile[response.other]))
    /\ ViolatedTags(criteria[response.user].deal_breakers,
                    ProfileRow(profile[response.other]))
       + (IF criteria[response.other].exists
          THEN ViolatedTags(criteria[response.other].deal_breakers,
                            ProfileRow(profile[response.user]))
          ELSE 0) = 1

\* The sum of the five weights.
WeightTotal(weights) ==
    RSum(<<weights.budget, weights.location, weights.lifestyle,
           weights.schedule, weights.habits>>)

\* A user's importance of a dimension, 3 for a user without criteria.
ImportanceOr3(crit, i) ==
    IF crit.exists
    THEN <<crit.budget_importance, crit.location_importance,
           crit.lifestyle_importance, crit.schedule_importance,
           crit.habits_importance>>[i]
    ELSE 3

\* The sum of the two users' importances of dimension i: twice their average.
ImportanceSum(c1, c2, i) == ImportanceOr3(c1, i) + ImportanceOr3(c2, i)

Undismissed(r) == [r EXCEPT !.is_dismissed = FALSE]

\* C10: a step of dismiss_recommendation leaves the recommendation with
\* is_dismissed true and out of the requesting user's active listing, and
\* the rows of the table are those before the step, the dismissed flag of
\* that one row apart.
C10_DismissKeepsRow ==
    [][response'.op = "dismiss_recommendation"
       => /\ \E r \in recs :
                 /\ r.target_user = response'.user
                 /\ r.recommended_user = response'.other
                 /\ recs' = (recs \ {r}) \cup {[r EXCEPT !.is_dismissed = TRUE]}
          /\ Cardinality(recs') = Cardinality(recs)
          /\ {Undismissed(r) : r \in recs'} = {Undismissed(r) : r \in recs}
          /\ \A r \in active_recommendations(recs', response'.user) :
                 r.recommended_user # response'.other]_vars

\* A user with two recommendations has dismissed one: it is still stored,
\* and the other one is still in the active listing.
C10_Witness ==
    /\ response.op = "dismiss_recommendation"
    /\ \E r \in recs : /\ r.target_user = response.user
                       /\ r.recommended_user = response.other
                       /\ r.is_dismissed
    /\ Cardinality(my_matches(response.user)) = 1
    /\ Cardinality({r \in recs : r.target_user = response.user}) = 2

\* The recommendations a call of generate_recommendations returned, as rows
\* of the table now.
ReturnedRows ==
    {r \in recs : /\ r.target_user = response.user
                  /\ \E i \in 1..Len(response.value) :
                         response.value[i].recommended_user = r.recommended_user}

\* C11: every recommendation generate_recommendations returns is stored with
\* is_dismissed false, whatever the flag was before, and so is in the
\* target's active listing after the refresh.
C11_RefreshUndismisses ==
    response.op = "generate_recommendations" /\ response.kind = "ok"
    => /\ Cardinality(ReturnedRows) = Len(response.value)
       /\ \A r \in ReturnedRows : ~r.is_dismissed
       /\ ReturnedRows \subseteq my_matches(response.user)

\* A refresh has returned a user whom the target had dismissed before.
C11_Witness ==
    /\ response.op = "generate_recommendations"
    /\ response.kind = "ok"
    /\ \E r \in ReturnedRows :
           \E i \in 1..Len(interactions) :
               /\ interactions[i].interaction_type = "dismiss"
               /\ interactions[i].source_user = r.target_user
               /\ interactions[i].target_user = r.recommended_user

\* The number of success records of score calculations in the log A.
SuccessRecords(A) == CopiesIn(ScoreCalculated, A)

\* The rows S with the rows W written over them, pair by pair.
Overwritten(S, W) ==
    {r \in S : \A w \in W : w.user1 # r.user1 \/ w.user2 # r.user2} \cup W

\* C12: a score write and its success record are persisted together or not
\* at all. In every step, whether the call returned, failed inside
\* calculate_user_compatibility or had its batch rolled back, the number of
\* success records added to the log is the number of rows written to the
\* CompatibilityScore table: no record is ever removed, a step that adds
\* none leaves the table as it was, a step that adds n leaves it with n
\* rows of distinct pairs written, and a call (a step that leaves the
\* faults of the database as they are) that returns a row has added exactly
\* its record.
C12_WriteAndRecordTogether ==
    [][/\ SuccessRecords(activities') >= SuccessRecords(activities)
       /\ \E W \in SUBSET scores' :
              /\ Cardinality(W)
                     = SuccessRecords(activities') - SuccessRecords(activities)
              /\ scores' = Overwritten(scores, W)
       /\ (failing_creates' = failing_creates
              /\ response'.op = "compatibility_detail"
              /\ response'.user # response'.other)
          => /\ SuccessRecords(activities') - SuccessRecords(activities)
                    = IF response'.kind = "ok" THEN 1 ELSE 0
             /\ response'.kind = "ok" => response'.value \in scores'
       /\ (failing_creates' = failing_creates
              /\ response'.op = "generate_recommendations")
          => SuccessRecords(activities') - SuccessRecords(activities)
                 = Len(response'.scored)]_vars

\* A batch over a candidate that can be scored was rolled back because its
\* own record could not be written: the failure is logged, and neither the
\* candidate's row nor its success record is there.
C12_Witness ==
    /\ response.op = "generate_recommendations"
    /\ response.kind = "ok"
    /\ response.value = <<>>
    /\ response.limit > 0
    /\ Scorable(response.user) # {}
    /\ ~create_fails("score_calculation", TRUE)
    /\ scores = {}
    /\ SuccessRecords(activities) = 0
    /\ BagIn([activity_type |-> "recommendation_generation", success |-> FALSE,
              error_message |-> error_text("DatabaseError")], activities)

\* C13: the activity log does not change what the wrapped operation does.
\* Whether or not the writes of the log succeed, compatibility_detail hands
\* back the row of the pair, stored, or the exception of the calculation,
\* and generate_recommendations returns the recommendations of the
\* candidates that can be scored, up to limit, their rows stored.
C13_TelemetryObservational ==
    /\ (response.op = "compatibility_detail" /\ response.user # response.other)
       => IF user_compatibility(ordered_pair(response.user, response.other)[1],
                                ordered_pair(response.user, response.other)[2]).kind
                = "ok"
          THEN /\ response.kind = "ok"
               /\ response.value \in scores
          ELSE /\ response.kind = "raise"
               /\ response.value \in {"KeyError", "TypeError"}
    /\ response.op = "generate_recommendations"
       => /\ response.kind = "ok"
          /\ Len(response.value)
                 = IMin(response.limit, Cardinality(Scorable(response.user)))
          /\ \A v \in Scorable(response.user) :
                 \E r \in scores : {r.user1, r.user2} = {response.user, v}

\* The overall score the rows S hold for the two users, whichever of them
\* is user1; <<>> when there is no row.
SnapshotOf(S, a, b) ==
    IF \E r \in S : {r.user1, r.user2} = {a, b}
    THEN (CHOOSE r \in S : {r.user1, r.user2} = {a, b}).overall_score
    ELSE <<>>

\* The calls that record an interaction.
Recording == {"dismiss_recommendation", "connect_with_user_post"}

\* C14: every step leaves the interactions recorded so far as they are, in
\* place and content, a recalculation of their pair's score included; a
\* call that records an interaction appends exactly one row, from the
\* caller to the other user, whose compatibility_score_at_time is the
\* overall score the row of their pair, in either direction, held before
\* the call, and null when there was no such row; no other step appends.
C14_InteractionSnapshot ==
    [][/\ Len(interactions') >= Len(interactions)
       /\ SubSeq(interactions', 1, Len(interactions)) = interactions
       /\ IF response'.op \in Recording /\ response'.user # response'.other
          THEN /\ Len(interactions') = Len(interactions) + 1
               /\ interactions'[Len(interactions')].source_user = response'.user
               /\ interactions'[Len(interactions')].target_user = response'.other
               /\ interactions'[Len(interactions')].compatibility_score_at_time
                      = SnapshotOf(scores, response'.user, response'.other)
          ELSE interactions' = interactions]_vars

\* An interaction recorded by the user with the higher id holds the score
\* of its pair at that time, and the pair's score has been recalculated to
\* another value since.
C14_Witness ==
    \E i \in 1..Len(interactions) :
        /\ interactions[i].source_user > interactions[i].target_user
        /\ interactions[i].compatibility_score_at_time # <<>>
        /\ SnapshotOf(scores, interactions[i].source_user,
                      interactions[i].target_user) # <<>>
        /\ SnapshotOf(scores, interactions[i].source_user,
                      interactions[i].target_user)
               # interactions[i].compatibility_score_at_time

\* The row the rows S hold for the pair of a and b, as a set.
RowsOf(S, a, b) == {r \in S : {r.user1, r.user2} = {a, b}}

\* C16: a step that saves a profile or matching criteria leaves every
\* CompatibilityScore row and every recommendation as it was; the row of a
\* pair is created or changed only by a step that calculates that pair,
\* the detail view of the two users or generate_recommendations of one of
\* them with the other among the candidates.
C16_EditsKeepScores ==
    [][/\ response'.op \in {"profile_save", "criteria_save"}
          => scores' = scores /\ recs' = recs
       /\ \A a, b \in Users :
              RowsOf(scores', a, b) # RowsOf(scores, a, b)
              => \/ /\ response'.op = "compatibility_detail"
                    /\ {response'.user, response'.other} = {a, b}
                 \/ /\ response'.op = "generate_recommendations"
                    /\ \/ response'.user = a /\ b \in candidate_pool(a)
                       \/ response'.user = b /\ a \in candidate_pool(b)]_vars

\* A user has saved another profile: the score stored for a pair of theirs,
\* and recommended to them, is no longer what a calculation would give.
C16_Witness ==
    /\ response.op = "profile_save"
    /\ \E r \in scores :
           /\ response.user \in {r.user1, r.user2}
           /\ user_compatibility(r.user1, r.user2).kind = "ok"
           /\ user_compatibility(r.user1, r.user2).overall_score # r.overall_score
           /\ \E rec \in recs : /\ rec.target_user = response.user
                                 /\ rec.compatibility_score = <<r.user1, r.user2>>

\* Whether `result` is what a single computation of the two users gives,
\* whole: calculate_compatibility on some profiles of theirs and the
\* criteria they hold.
WholeResult(result, user1, user2) ==
    \E p1, p2 \in ProfileCatalog :
        compatibility_results[<<p1, p2, criteria[user1], criteria[user2]>>]
            = result

\* The result a stored row was written from, if it was written from one.
ResultOf(r) ==
    [kind |-> "ok",
     overall_score |-> r.overall_score,
     budget_score |-> r.budget_score,
     location_score |-> r.location_score,
     lifestyle_score |-> r.lifestyle_score,
     schedule_score |-> r.schedule_score,
     habits_score |-> r.habits_score,
     weights |-> r.score_breakdown.weights,
     deal_breaker_penalty |-> r.score_breakdown.deal_breaker_penalty]

\* C15: with calls of calculate_user_compatibility for one unordered pair
\* overlapping, in either argument order and however their steps
\* interleave, the table never holds two rows of the pair; every row
\* stored is, in all its fields, the result of one computation; and once a
\* call has returned, the pair's one row is the row of the call that
\* returned last.
C15_LastWriteWins ==
    /\ \A r1, r2 \in scores :
           (r1.user1 = r2.user1 /\ r1.user2 = r2.user2) => r1 = r2
    /\ \A r \in scores : r.user1 < r.user2 /\ WholeResult(ResultOf(r), r.user1, r.user2)
    /\ (response.op = "calculate_user_compatibility" /\ response.kind = "ok")
       => RowsOf(scores, response.user, response.other) = {response.value}

\* A call has committed its row over the row of an earlier computation that
\* gave another score, while the other call, entered for the same pair with
\* the users in the opposite order, was refused its write.
C15_Witness ==
    /\ response.op = "calculate_user_compatibility"
    /\ response.kind = "ok"
    /\ \E c \in Calls :
           /\ calls[c].pc = "failed"
           /\ calls[c].exc = "OperationalError"
           /\ calls[c].userA = response.other
           /\ calls[c].userB = response.user
           /\ calls[c].found
           /\ score_row(call_pair(c)[1], call_pair(c)[2], calls[c].result)
                  = response.value
    /\ profile[1] \in SavedProfiles

\* C17: in every reachable state each UserRecommendation row has a
\* recommended user other than its target and references the
\* CompatibilityScore row of the canonical pair of the two, which is
\* stored, and no two rows share (target_user, recommended_user).
C17_RecommendationRows ==
    /\ \A r \in recs :
           /\ r.target_user # r.recommended_user
           /\ r.compatibility_score
                  = ordered_pair(r.target_user, r.recommended_user)
           /\ Cardinality({c \in scores :
                              <<c.user1, c.user2>> = r.compatibility_score}) = 1
    /\ \A r1, r2 \in recs :
           (r1.target_user = r2.target_user
            /\ r1.recommended_user = r2.recommended_user) => r1 = r2

\* Two users are recommended to each other by the one score row of their
\* pair: one recommendation takes its user2, the other its user1.
C17_Witness ==
    /\ response.op = "generate_recommendations"
    /\ response.kind = "ok"
    /\ \E r1, r2 \in recs :
           /\ r1.target_user < r1.recommended_user
           /\ r2.target_user = r1.recommended_user
           /\ r2.recommended_user = r1.target_user
           /\ response.user = r2.target_user

\* Whether the profile lacks both budget bounds.
LacksBothBounds(p) == p.min_budget = 0 /\ p.max_budget = 0

\* The budget score as stated from the two ranges: 0 when the overlap is
\* not positive, otherwise min(100, 100 * overlap / ((rangeA + rangeB) / 2)).
BudgetFromRanges(pA, pB) ==
    LET overlap == IMin(pA.max_budget, pB.max_budget)
                       - IMax(pA.min_budget, pB.min_budget)
        rangeA == pA.max_budget - pA.min_budget
        rangeB == pB.max_budget - pB.min_budget
    IN IF overlap <= 0 THEN RInt(0)
       ELSE RMin(RInt(100), RDiv(RInt(100 * overlap), Rat(rangeA + rangeB, 2)))

\* C18: when neither user lacks both budget bounds, a calculation of the
\* pair gives the budget score computed from the two ranges (50 for
\* [200,400] against [300,500]); the neutral 50 is given only when a user
\* lacks both bounds.
C18_BudgetFromRanges ==
    (/\ response.op = "calculate_compatibility"
     /\ profile[response.user] # "none"
     /\ profile[response.other] # "none")
    => IF \/ LacksBothBounds(ProfileRow(profile[response.user]))
          \/ LacksBothBounds(ProfileRow(profile[response.other]))
       THEN response.kind = "ok" /\ response.value.budget_score = RInt(50)
       ELSE /\ response.kind = "ok"
            /\ response.value.budget_score
                   = BudgetFromRanges(ProfileRow(profile[response.user]),
                                      ProfileRow(profile[response.other]))

\* The drinking table as stated, on the unordered pair of categories.
DrinkingAsStated(a, b) ==
    CASE {a, b} = {"no"} -> 100
      [] {a, b} = {"no", "social"} -> 80
      [] {a, b} = {"no", "regular"} -> 40
      [] {a, b} = {"social"} -> 100
      [] {a, b} = {"social", "regular"} -> 85
      [] {a, b} = {"regular"} -> 100
      [] OTHER -> 70

\* The profile without its drinking category: the lifestyle score of two
\* such profiles is the mean of the three other sub-factors.
WithoutDrinking(p) == [p EXCEPT !.drinking = ""]

\* C19: the drinking sub-factor of the lifestyle score is the table value
\* of the unordered pair of categories, whichever user holds which
\* (no/no 100, no/social 80, no/regular 40, social/social 100,
\* social/regular 85, regular/regular 100, any other pair 70): the
\* lifestyle score of two profiles with all four sub-factors is the mean
\* of that value and the three others.
C19_DrinkingTable ==
    response.op = "calculate_lifestyle_compatibility"
    => response.value
           = RDiv(RAdd(RMul(RInt(3),
                            calculate_lifestyle_compatibility(
                                WithoutDrinking(ProfileRow(profile[response.user])),
                                WithoutDrinking(ProfileRow(profile[response.other])))),
                       RInt(DrinkingAsStated(
                                ProfileRow(profile[response.user]).drinking,
                                ProfileRow(profile[response.other]).drinking))),
                  RInt(4))

\* The schedule table as stated, on the unordered pair of schedule types.
ScheduleAsStated(a, b) ==
    CASE {a, b} = {"early_bird"} -> 100
      [] {a, b} = {"early_bird", "regular"} -> 80
      [] {a, b} = {"early_bird", "night_owl"} -> 40
      [] {a, b} = {"regular"} -> 100
      [] {a, b} = {"regular", "night_owl"} -> 75
      [] {a, b} = {"night_owl"} -> 100
      [] OTHER -> 70

\* C20: the schedule score is 50 if either schedule type is missing;
\* otherwise it is the table value of the unordered pair of schedule types
\* (early/early 100, early/regular 80, early/night 40, regular/regular 100,
\* regular/night 75, night/night 100, any other pair 70), plus 10 capped at
\* 100 when the two works_from_home flags are equal.
C20_ScheduleTable ==
    response.op = "calculate_schedule_compatibility"
    => LET p1 == ProfileRow(profile[response.user])
           p2 == ProfileRow(profile[response.other])
       IN response.value
              = IF p1.schedule_type = "" \/ p2.schedule_type = ""
                THEN RInt(50)
                ELSE IF p1.works_from_home = p2.works_from_home
                THEN RInt(IMin(100, ScheduleAsStated(p1.schedule_type,
                                                     p2.schedule_type) + 10))
                ELSE RInt(ScheduleAsStated(p1.schedule_type, p2.schedule_type))

\* The set of locations of a list, compared without regard to case.
LocationSet(locations) == {Lower(locations[i]) : i \in 1..Len(locations)}

\* The location score as stated, from the two sets of locations.
LocationAsStated(A, B) ==
    IF A = {} \/ B = {} THEN RInt(60)
    ELSE IF A \cap B = {} THEN RInt(30)
    ELSE RMin(RInt(100),
              RAdd(Rat(100 * Cardinality(A \cap B),
                       IMax(Cardinality(A), Cardinality(B))),
                   RInt(50)))

\* C21: the location score is 60 when either user's set of preferred
\* locations is empty, 30 when both are non-empty and share no location,
\* and min(100, 100 * |intersection| / max(|A|, |B|) + 50) when they share
\* one, the locations compared without regard to case and |A|, |B| the
\* sizes of the two sets.
C21_LocationScore ==
    response.op = "calculate_location_compatibility"
    => response.value
           = LocationAsStated(
                 LocationSet(ProfileRow(profile[response.user]).preferred_locations),
                 LocationSet(ProfileRow(profile[response.other]).preferred_locations))

\* The row the reason of the last reason_call was generated from.
ReasonedRow ==
    CHOOSE row \in scores : /\ row.user1 = response.user
                            /\ row.user2 = response.other

\* The three highest-scoring components of the row.
TopThree(row) == take(sorted_components(component_scores(row)), 3)

\* C22: the reason starts with the intro of the overall tier (90 and more
\* excellent, 80 and more great, 70 and more good, otherwise moderate) and
\* holds the sentence of every one of the three highest-scoring components
\* whose score is 80 or more; it states the numeric overall score only
\* when none of the three reaches 80.
C22_ReasonText ==
    response.op = "generate_recommendation_reason"
    => /\ response.value[1] = reason_intro(ReasonedRow.overall_score)
       /\ \A i \in 1..Len(TopThree(ReasonedRow)) :
              RLe(RInt(80), TopThree(ReasonedRow)[i].score)
              => \E j \in 1..Len(response.value) :
                     response.value[j]
                         = component_reasons(TopThree(ReasonedRow)[i].component)
       /\ (\E j \in 1..Len(response.value) :
               response.value[j] = "Overall compatibility score: ")
          <=> (\A i \in 1..Len(TopThree(ReasonedRow)) :
                   RLt(TopThree(ReasonedRow)[i].score, RInt(80)))

\* C23: every UserInteraction recorded by a flow of the system has an
\* interaction_type of the six declared in INTERACTION_TYPES.
C23_DeclaredInteractionTypes ==
    \A i \in 1..Len(interactions) :
        interactions[i].interaction_type \in INTERACTION_TYPES

\* The (target, recommended) pairs of the recommendations of R that are
\* dismissed.
dismissed_pairs(R) ==
    {<<r.target_user, r.recommended_user>> : r \in {x \in R : x.is_dismissed}}

\* The users the reply of the service lists.
returned_users(reply) ==
    {reply.value[i].recommended_user : i \in DOMAIN reply.value}

\* C24: get_user_recommendations(user) called with refresh = false
\* changes no is_dismissed flag and returns no recommendation that was
\* dismissed before the call.
C24_DismissedUntilRefresh ==
    [][\A u \in StatusUsers :
          get_user_recommendations(u, FALSE)
              => /\ dismissed_pairs(recs') = dismissed_pairs(recs)
                 /\ \A other \in returned_users(response') :
                        <<u, other>> \notin dismissed_pairs(recs)]_vars

\* C24 within the case where a recommendation of the user is still active.
C24_WhileSomeActive ==
    [][\A u \in StatusUsers :
          (active_recommendations(recs, u) # {} /\ get_user_recommendations(u, FALSE))
              => /\ dismissed_pairs(recs') = dismissed_pairs(recs)
                 /\ \A other \in returned_users(response') :
                        <<u, other>> \notin dismissed_pairs(recs)]_vars

\* C28: once mark_viewed (mark_contacted) has set is_viewed (is_contacted),
\* no later mark, dismissal or regeneration clears the flag or changes its
\* timestamp, and in every state viewed_at (contacted_at) is set exactly when
\* is_viewed (is_contacted) is true.
C28_StatusMonotonic ==
    /\ [](\A r \in recs : /\ r.is_viewed <=> r.viewed_at # 0
                          /\ r.is_contacted <=> r.contacted_at # 0)
    /\ [][\A r \in recs : \E q \in same_row(recs', r) :
              /\ r.is_viewed => (q.is_viewed /\ q.viewed_at = r.viewed_at)
              /\ r.is_contacted => (q.is_contacted /\ q.contacted_at = r.contacted_at)]_vars

\* A recommendation viewed at 1 and contacted at 2 has been dismissed after
\* the marks.
C28_Witness ==
    /\ response.op = "dismiss_recommendation"
    /\ \E r \in recs : /\ r.is_dismissed
                       /\ r.is_viewed /\ r.viewed_at = 1
                       /\ r.is_contacted /\ r.contacted_at = 2

\* C25: dismiss_recommendation changes only the is_dismissed flag of its
\* recommendation, also when a mark or a regeneration of the row commits
\* between its read and its save: every other field of the row is after the
\* save what it was in the database before it.
C25_DismissOnlySetsFlag ==
    [][\A c \in Calls :
          (calls[c].pc = "loaded" /\ calls'[c].pc = "idle")
              => \A r \in same_row(recs, calls[c].result) :
                     [r EXCEPT !.is_dismissed = TRUE] \in recs']_vars

\* The record the except clause of generate_recommendations writes.
BatchFailed ==
    [activity_type |-> "recommendation_generation", success |-> FALSE,
     error_message |-> error_text("DatabaseError")]

C27_FailureRecordedAndRaised ==
    [][\A u, v \in PairUsers :
          (/\ u # v
           /\ compatibility_detail(u, v)
           /\ user_compatibility(ordered_pair(u, v)[1],
                                 ordered_pair(u, v)[2]).kind # "ok")
              => /\ response'.kind = "raise"
                 /\ scores' = scores
                 /\ \E a \in BagToSet(activities') :
                        /\ a.activity_type = "score_calculation"
                        /\ ~a.success
                        /\ a.error_message # ""
                        /\ activities' = activities (+) SetToBag({a})]_vars

\* The call for a pair one user of which has no profile has raised: the log holds the failure with the text of the KeyError.
C27_Witness ==
    /\ response.op = "compatibility_detail"
    /\ response.kind = "raise"
    /\ "none" \in {profile[response.user], profile[response.other]}
    /\ scores = {}
    /\ activities = SetToBag({[activity_type |-> "score_calculation",
                               success |-> FALSE,
                               error_message |-> error_text("KeyError")]})

\* A tag as the choices of UserProfile let a stored profile violate it:
\* 'smoking' by a profile whose smoker is 'regularly', 'pets' by one whose
\* pets is 'cat' or 'dog'; 'partying' and 'messy' by the levels of the
\* calculator.
ViolatedAsDeclared(deal_breaker, other) ==
    \/ Contains(Lower(deal_breaker), SMOKING) /\ other.smoker = "regularly"
    \/ Contains(Lower(deal_breaker), PETS) /\ other.pets \in {"cat", "dog"}
    \/ Contains(Lower(deal_breaker), PARTYING)
       /\ other.social_level # 0 /\ other.social_level >= 8
    \/ Contains(Lower(deal_breaker), MESSY)
       /\ other.cleanliness_level # 0 /\ other.cleanliness_level <= 3

\* The share of one user in the penalty with the tags counted so.
DeclaredShare(crit, own, other) ==
    IF crit.exists
    THEN 50 * Cardinality({i \in 1..Len(crit.deal_breakers) :
                              ViolatedAsDeclared(crit.deal_breakers[i], other)})
         + 30 * AgeOutside(crit, own, other)
         + 40 * GenderUnequal(crit, own, other)
    ELSE 0

\* C29: a deal-breaker is applied to the candidates whose stored profile
\* violates it: in the penalty of a pair, up to its cap of 100, a 'smoking'
\* tag counts 50 against a profile that smokes regularly and a 'pets' tag
\* counts 50 against a profile with a cat or a dog.
C29_StoredProfileViolates ==
    (response.op = "calculate_compatibility" /\ response.kind = "ok")
    => response.value.deal_breaker_penalty
           = IMin(100,
                  DeclaredShare(criteria[response.user],
                                ProfileRow(profile[response.user]),
                                ProfileRow(profile[response.other]))
                  + DeclaredShare(criteria[response.other],
                                  ProfileRow(profile[response.other]),
                                  ProfileRow(profile[response.user])))

\* C30: no CompatibilityScore row pairs a user with themselves: the views
\* turn a request for the user's own id away and generate_recommendations
\* leaves the target out of its candidates, so user1 # user2 in every row.
C30_NoSelfPair == \A r \in scores : r.user1 # r.user2

\* A user has asked for the compatibility with themselves and was
\* redirected, after a batch of recommendations stored rows for them.
C30_Witness ==
    /\ response.op = "compatibility_detail"
    /\ response.user = response.other
    /\ response.kind = "redirect"
    /\ \E r \in recs : r.target_user = response.user
    /\ \E r \in scores : response.user \in {r.user1, r.user2}

====
